---- MODULE Spec2Model ----
(***************************************************************************)
(* A state machine of the yash-rs syntax parser: the productions of        *)
(* yash-syntax/src/parser/list.rs (list, newline_and_here_doc_contents,    *)
(* command_line, maybe_compound_list) and while_loop.rs (while_loop,       *)
(* until_loop), run by an explicit call stack over a character-level       *)
(* lexer.  One action is one stretch of a production between two awaits    *)
(* of a sub-production.                                                    *)
(*                                                                         *)
(* The lexer, the token lookahead (peek_token, take_token_raw), the        *)
(* here-document reader, alias substitution and the productions below the  *)
(* list (and_or_list, simple command, do_clause) live in files that are    *)
(* not part of the source tree at hand; they are modelled from the         *)
(* specification and from the tests that exercise them.  The grammar       *)
(* below the list is restricted to simple commands made of words and `<<`  *)
(* here-document redirections and to while/until loops: pipelines, `&&`,   *)
(* `||`, the other compound commands, redirections after a compound        *)
(* command, quoting and the blank-ending-alias rule are outside the model, *)
(* and the inputs are drawn so that they do not need them.                 *)
(***************************************************************************)
EXTENDS Integers, Sequences, FiniteSets, TLC

\* The longest generated input, counted in lexemes.
MaxLexemes == 3

\* The longest generated input of the termination runs, in lexemes.
MaxAliasLexemes == 3

(***************************************************************************)
(* Characters and tokens                                                   *)
(***************************************************************************)

NL == "\n"

\* Characters that end a word: blanks and the operator characters.
IsWordChar(ch) == ch \notin {" ", NL, ";", "&", ")", "(", "<", ">", "|"}

\* Reserved words, as the sequences of characters the lexer reads.
KwWhile == <<"w", "h", "i", "l", "e">>
KwUntil == <<"u", "n", "t", "i", "l">>
KwDo == <<"d", "o">>
KwDone == <<"d", "o", "n", "e">>
KwFi == <<"f", "i">>
KwCloseBrace == <<"}">>

\* Token(Some(keyword)) for a reserved word, Token(None) ("Word") otherwise.
Keyword(word) ==
  CASE word = KwWhile -> "While"
    [] word = KwUntil -> "Until"
    [] word = KwDo -> "Do"
    [] word = KwDone -> "Done"
    [] word = KwFi -> "Fi"
    [] word = KwCloseBrace -> "CloseBrace"
    [] OTHER -> "Word"

KeywordIds == {"While", "Until", "Do", "Done", "Fi", "CloseBrace"}

\* TokenId::Token(_): a word, reserved or not.
IsToken(id) == id \in KeywordIds \cup {"Word"}

\* TokenId::is_clause_delimiter: the tokens that may end a compound list.
\* `do` is one of them: `while true; do :; done` parses only if the
\* condition's compound list stops, without error, at `do`.
is_clause_delimiter(id) ==
  id \in {"CloseBrace", "CloseParen", "Do", "Done", "Fi",
          "SemicolonSemicolon", "EndOfInput"}

Tok(id, word, start, end) ==
  [id |-> id, word |-> word, start |-> start, end |-> end]

\* No token: the empty lookahead.
NoToken == Tok("None", <<>>, 0, 0)

RECURSIVE skip_blanks(_, _)
skip_blanks(c, i) ==
  IF i < Len(c) /\ c[i + 1] = " " THEN skip_blanks(c, i + 1) ELSE i

RECURSIVE line_end(_, _)
\* The offset of the first newline at or after i, or the end of the input.
line_end(c, i) ==
  IF i < Len(c) /\ c[i + 1] # NL THEN line_end(c, i + 1) ELSE i

\* A comment runs from `#` to the end of the line, newline excluded.
skip_blanks_and_comment(c, i) ==
  LET s == skip_blanks(c, i)
  IN IF s < Len(c) /\ c[s + 1] = "#" THEN line_end(c, s) ELSE s

RECURSIVE word_end(_, _)
word_end(c, i) ==
  IF i < Len(c) /\ IsWordChar(c[i + 1]) THEN word_end(c, i + 1) ELSE i

\* Lexer::token: the token that starts at or after offset i of the code c.
\* Offsets count characters from 0, as the ranges of a Location do.
lex_token(c, i) ==
  LET s == skip_blanks_and_comment(c, i)
      next == IF s + 1 < Len(c) THEN c[s + 2] ELSE "EOF"
  IN IF s >= Len(c) THEN Tok("EndOfInput", <<>>, s, s)
     ELSE CASE c[s + 1] = NL -> Tok("Newline", <<NL>>, s, s + 1)
            [] c[s + 1] = ";" ->
                 IF next = ";"
                 THEN Tok("SemicolonSemicolon", <<";", ";">>, s, s + 2)
                 ELSE Tok("Semicolon", <<";">>, s, s + 1)
            [] c[s + 1] = "&" -> Tok("And", <<"&">>, s, s + 1)
            [] c[s + 1] = ")" -> Tok("CloseParen", <<")">>, s, s + 1)
            [] c[s + 1] = "<" /\ next = "<" ->
                 Tok("LessLess", <<"<", "<">>, s, s + 2)
            [] OTHER ->
                 LET e == IF IsWordChar(c[s + 1]) THEN word_end(c, s) ELSE s + 1
                     w == SubSeq(c, s + 1, e)
                 IN Tok(IF IsWordChar(c[s + 1]) THEN Keyword(w) ELSE "Operator",
                        w, s, e)

(***************************************************************************)
(* Inputs, alias tables and entry points                                   *)
(***************************************************************************)

\* parser_list_many_items: "foo & bar ; baz&"
InListManyItems ==
  <<"f", "o", "o", " ", "&", " ", "b", "a", "r", " ", ";", " ", "b", "a",
    "z", "&">>

\* parser_command_line_command_and_newline: "<<END\nfoo\nEND\n"
InHereDocAndNewline ==
  <<"<", "<", "E", "N", "D", NL, "f", "o", "o", NL, "E", "N", "D", NL>>

\* parser_command_line_here_doc_without_newline: "<<END"
InHereDocWithoutNewline ==
  <<"<", "<", "E", "N", "D">>

\* parser_command_line_wrong_delimiter: "foo)"
InWrongDelimiter ==
  <<"f", "o", "o", ")">>

\* parser_maybe_compound_list_some_commands_with_newline:
\* "echo& ls\n\ncat\n\n"
InSomeCommandsWithNewline ==
  <<"e", "c", "h", "o", "&", " ", "l", "s", NL, NL, "c", "a", "t", NL, NL>>

\* parser_maybe_compound_list_some_commands_with_invalid_delimiter:
\* "echo; ls\n &"
InInvalidDelimiter ==
  <<"e", "c", "h", "o", ";", " ", "l", "s", NL, " ", "&">>

\* parser_maybe_compound_list_empty_with_delimiter: "}"
InCloseBrace ==
  <<"}">>

\* parser_while_loop_short: "while true; do :; done"
InWhileShort ==
  <<"w", "h", "i", "l", "e", " ", "t", "r", "u", "e", ";", " ", "d", "o",
    " ", ":", ";", " ", "d", "o", "n", "e">>

\* parser_while_loop_long: "while false; true& do foo; bar& done"
InWhileLong ==
  <<"w", "h", "i", "l", "e", " ", "f", "a", "l", "s", "e", ";", " ", "t",
    "r", "u", "e", "&", " ", "d", "o", " ", "f", "o", "o", ";", " ", "b",
    "a", "r", "&", " ", "d", "o", "n", "e">>

\* parser_while_loop_unclosed: "while :"
InWhileUnclosed ==
  <<"w", "h", "i", "l", "e", " ", ":">>

\* parser_while_loop_empty_posix: " while do :; done"
InWhileEmpty ==
  <<" ", "w", "h", "i", "l", "e", " ", "d", "o", " ", ":", ";", " ", "d",
    "o", "n", "e">>

\* parser_while_loop_aliasing: " while :; DO :; done"
InWhileAliasing ==
  <<" ", "w", "h", "i", "l", "e", " ", ":", ";", " ", "D", "O", " ", ":",
    ";", " ", "d", "o", "n", "e">>

\* parser_until_loop_short: "until true; do :; done"
InUntilShort ==
  <<"u", "n", "t", "i", "l", " ", "t", "r", "u", "e", ";", " ", "d", "o",
    " ", ":", ";", " ", "d", "o", "n", "e">>

\* parser_until_loop_unclosed: "until :"
InUntilUnclosed ==
  <<"u", "n", "t", "i", "l", " ", ":">>

\* parser_until_loop_empty_posix: "  until do :; done"
InUntilEmpty ==
  <<" ", " ", "u", "n", "t", "i", "l", " ", "d", "o", " ", ":", ";", " ",
    "d", "o", "n", "e">>

\* A comment line and a loop whose condition holds a here-document:
\* "#c\n" and "while <<E\nx\nE\ndo a\ndone\na".
InComment ==
  <<"#", "c", NL>>

InWhileHereDoc ==
  <<"w", "h", "i", "l", "e", " ", "<", "<", "E", NL, "x", NL, "E", NL,
    "d", "o", " ", "a", NL, "d", "o", "n", "e", NL, "a">>

TestInputs ==
  {InListManyItems, InHereDocAndNewline, InHereDocWithoutNewline,
   InWrongDelimiter, InSomeCommandsWithNewline, InInvalidDelimiter,
   InCloseBrace, InWhileShort, InWhileLong, InWhileUnclosed, InWhileEmpty,
   InWhileAliasing, InUntilShort, InUntilUnclosed, InUntilEmpty, InComment,
   InWhileHereDoc}

\* The pieces the generated inputs are made of.
Lexemes ==
  {<<"a">>, <<" ">>, <<";">>, <<"&">>, <<NL>>, <<")">>, <<"<", "<", "a">>,
   <<"w", "h", "i", "l", "e", " ">>}

RECURSIVE Concatenations(_, _)
Concatenations(lexemes, n) ==
  IF n = 0 THEN {<<>>}
  ELSE LET shorter == Concatenations(lexemes, n - 1)
       IN shorter \cup {p \o l : p \in shorter, l \in lexemes}

\* `&&` is an and-or connector, which the modelled grammar does not have.
InGrammar(c) == \A i \in 1..(Len(c) - 1) : ~(c[i] = "&" /\ c[i + 1] = "&")

Inputs ==
  TestInputs \cup {c \in Concatenations(Lexemes, MaxLexemes) : InGrammar(c)}

\* The inputs of the runs that are checked for termination: the pieces among
\* which an alias name can stand first, after a separator, after a newline
\* and inside a loop.
AliasLexemes ==
  {<<"a">>, <<";">>, <<NL>>, <<"w", "h", "i", "l", "e", " ">>}

AliasInputs == TestInputs \cup Concatenations(AliasLexemes, MaxAliasLexemes)

\* Alias tables: name |-> replacement.  The second is the table of
\* parser_while_loop_aliasing with an alias of empty value added; the third
\* holds an alias that names itself through its own replacement and two
\* aliases that name each other.
NoAliases == <<>>

TestAliases ==
  (<<"D", "O">> :> KwDo) @@ (KwWhile :> <<";", ";">>) @@ (<<"a">> :> <<>>)

RecursiveAliases ==
  (<<"a">> :> <<"b", ";", "a">>) @@ (<<"b">> :> <<"a">>)

MutualAliases == (<<"a">> :> <<"b">>) @@ (<<"b">> :> <<"a">>)

AliasTables == {NoAliases, TestAliases, RecursiveAliases}

RecursiveAliasTables == {TestAliases, RecursiveAliases, MutualAliases}

\* The parser functions a caller may enter.
EntryPoints == {"command_line", "maybe_compound_list", "compound_command"}

(***************************************************************************)
(* State                                                                   *)
(***************************************************************************)

VARIABLES
  code,             \* Lexer: the characters of the source code
  origin,           \* Lexer: per character, the aliases it was substituted for
  index,            \* Lexer: the offset of the next character to read
  token,            \* Parser: the token peeked and not yet taken (NoToken if none)
  here_docs,        \* the here-documents parsed so far (shared AST nodes)
  unread_here_docs, \* Parser: the here-documents whose content is not read yet
  stack,            \* the productions in progress, innermost last
  ret,              \* the value the production that just returned handed back
  result,           \* the value the entry point returned to its caller
  aliases,          \* Parser: the alias table lent by the caller
  entry,            \* the entry point the caller uses
  start,            \* what the caller saw when it entered: the first token
                    \* at the current position
  system            \* SelectSystem and the system it wraps (NoSystem if the
                    \* caller uses none)

\* The caller uses no SelectSystem.
NoSystem == <<>>

vars ==
  <<code, origin, index, token, here_docs, unread_here_docs, stack, ret,
    result, aliases, entry, start, system>>

\* The values productions return: Rec::Parsed, Rec::AliasSubstituted, Ok, Err.
\* An Option is a sequence of at most one element.
Rec(from, tag, val) ==
  [from |-> from, tag |-> tag, val |-> val, cause |-> "None",
   location |-> <<>>]

Error(from, cause, location, opening_location) ==
  [from |-> from, tag |-> "Err", val |-> opening_location, cause |-> cause,
   location |-> location]

NoRet == Rec("None", "None", <<>>)

Location(t) == <<t.start, t.end>>

Frame(fn, pc, items, aux) == [fn |-> fn, pc |-> pc, items |-> items, aux |-> aux]

Top == stack[Len(stack)]

Running(fn, pc) == stack # <<>> /\ Top.fn = fn /\ Top.pc = pc

Init ==
  /\ system = NoSystem
  /\ code \in Inputs
  /\ origin = [i \in 1..Len(code) |-> {}]
  /\ index = 0
  /\ token = NoToken
  /\ here_docs = <<>>
  /\ unread_here_docs = <<>>
  /\ stack = <<>>
  /\ ret = NoRet
  /\ result = NoRet
  /\ aliases \in AliasTables
  /\ entry \in EntryPoints
  /\ start = NoToken

(***************************************************************************)
(* Parser primitives                                                       *)
(***************************************************************************)

\* Parser::peek_token: the lookahead, read from the lexer if there is none.
peek_token == IF token.id # "None" THEN token ELSE lex_token(code, index)

\* The effect of peek_token on the parser: the token stays in the lookahead.
Peeked == token' = peek_token /\ index' = peek_token.end

\* The effect of take_token_raw: the token leaves the lookahead.
Taken == token' = NoToken /\ index' = peek_token.end

SourceSame == UNCHANGED <<code, origin>>

LexerSame == UNCHANGED <<code, origin, index, token>>

HereDocsSame == UNCHANGED <<here_docs, unread_here_docs>>

CallerSame == UNCHANGED <<aliases, entry, start, system>>

\* The running production moves to pc, keeping items and aux, and awaits callee.
Call(pc, items, aux, callee) ==
  /\ stack' = Append([stack EXCEPT ![Len(stack)] = Frame(Top.fn, pc, items, aux)],
                     Frame(callee, "start", <<>>, <<>>))
  /\ ret' = NoRet
  /\ UNCHANGED result

\* The running production moves to pc without calling.
Goto(pc, items, aux) ==
  /\ stack' = [stack EXCEPT ![Len(stack)] = Frame(Top.fn, pc, items, aux)]
  /\ ret' = NoRet
  /\ UNCHANGED result

\* The running production returns v to the production that awaits it, or to
\* the caller of the entry point.
Return(v) ==
  /\ stack' = SubSeq(stack, 1, Len(stack) - 1)
  /\ ret' = v
  /\ result' = IF Len(stack) = 1 THEN v ELSE result

\* The running production returns the error e; the `?` of every production
\* that awaits hands it on, up to the caller of the entry point.
Fail(e) ==
  /\ stack' = <<>>
  /\ ret' = NoRet
  /\ result' = e

\* The restart loops ending on whatever the callee returned.
is_returned(rec) == rec.tag # "None"

\* `if let Rec::Parsed(x) = ... { break x }`: the restart loops end on Parsed.
is_parsed(rec) == rec.tag = "Parsed"

(***************************************************************************)
(* Here-document contents                                                  *)
(***************************************************************************)

RECURSIVE here_doc_content(_, _, _, _)
\* Lexer::here_doc_content: the lines from offset i up to the delimiter line.
here_doc_content(c, i, delimiter, content) ==
  LET e == line_end(c, i)
      line == SubSeq(c, i + 1, e)
      has_newline == e < Len(c)
      next == IF has_newline THEN e + 1 ELSE e
  IN IF line = delimiter THEN [ok |-> TRUE, content |-> content, index |-> next]
     ELSE IF ~has_newline
          THEN [ok |-> FALSE, content |-> content, index |-> next]
          ELSE here_doc_content(c, next, delimiter, content \o line \o <<NL>>)

RECURSIVE read_here_docs(_, _, _)
\* Parser::here_doc_contents: the contents of the pending here-documents,
\* oldest first, from offset i on.
read_here_docs(unread, i, docs) ==
  IF unread = <<>> THEN [ok |-> TRUE, index |-> i, here_docs |-> docs]
  ELSE LET r == here_doc_content(code, i, docs[Head(unread)].delimiter, <<>>)
       IN IF ~r.ok THEN [ok |-> FALSE, index |-> r.index, here_docs |-> docs]
          ELSE read_here_docs(Tail(unread), r.index,
                 [docs EXCEPT ![Head(unread)].content = r.content,
                              ![Head(unread)].filled = TRUE])

\* Parser::ensure_no_unread_here_doc, as the error it returns (if any).
MissingHereDocContent(from) ==
  Error(from, "MissingHereDocContent",
        here_docs[Head(unread_here_docs)].location, <<>>)

(***************************************************************************)
(* list.rs                                                                 *)
(***************************************************************************)

\* The match of lines 58-62 with the arms of `;` and `&` exchanged.
list_separator_swapped(tok) ==
  CASE tok.id = "And" -> [async_flag |-> <<>>, next |-> TRUE]
    [] tok.id = "Semicolon" -> [async_flag |-> Location(tok), next |-> TRUE]
    [] OTHER -> [async_flag |-> <<>>, next |-> FALSE]

\* list, lines 58-62: what the token after an and-or list makes of the item.
list_separator(tok) ==
  CASE tok.id = "Semicolon" -> [async_flag |-> <<>>, next |-> TRUE]
    [] tok.id = "And" -> [async_flag |-> Location(tok), next |-> TRUE]
    [] OTHER -> [async_flag |-> <<>>, next |-> FALSE]

\* list, lines 56-79: the while loop, entered with the Option and_or_list
\* gave, up to the next await or the return.
list_while(and_or) ==
  IF and_or = <<>>
  THEN /\ Return(Rec("list", "Parsed", Top.items))
       /\ UNCHANGED <<index, token>>
  ELSE LET sep == list_separator(peek_token)
           items == Append(Top.items,
                           [and_or |-> and_or[1], async_flag |-> sep.async_flag])
       IN IF ~sep.next
          THEN Peeked /\ Return(Rec("list", "Parsed", items))
          ELSE Taken /\ Call("rest", items, <<>>, "and_or_list")

\* list, lines 49-51: the first and_or_list is awaited.
list_start ==
  /\ Running("list", "start")
  /\ Call("first", <<>>, <<>>, "and_or_list")
  /\ LexerSame /\ HereDocsSame /\ CallerSame

\* list, lines 51-54: the first and_or_list has returned.
list_first ==
  /\ Running("list", "first") /\ ret.tag # "None"
  /\ IF ret.tag = "AliasSubstituted"
     THEN /\ Return(Rec("list", "AliasSubstituted", <<>>))
          /\ UNCHANGED <<index, token>>
     ELSE list_while(ret.val)
  /\ SourceSame /\ HereDocsSame /\ CallerSame

\* list, lines 72-76: an and_or_list after a separator has returned.
list_rest ==
  /\ Running("list", "rest") /\ ret.tag # "None"
  /\ IF is_parsed(ret)
     THEN list_while(ret.val)
     ELSE /\ Call("rest", Top.items, <<>>, "and_or_list")
          /\ UNCHANGED <<index, token>>
  /\ SourceSame /\ HereDocsSame /\ CallerSame

list == list_start \/ list_first \/ list_rest

\* newline_and_here_doc_contents, lines 89-93.
newline_start ==
  /\ Running("newline_and_here_doc_contents", "start")
  /\ IF peek_token.id # "Newline"
     THEN Peeked /\ Return(Rec("newline_and_here_doc_contents", "Ok", FALSE))
     ELSE Taken /\ Goto("here_doc_contents", <<>>, <<>>)
  /\ SourceSame /\ HereDocsSame /\ CallerSame

\* newline_and_here_doc_contents without line 94: the newline is consumed
\* and the here-document contents are left unread.
newline_here_doc_contents_skipped ==
  /\ Running("newline_and_here_doc_contents", "here_doc_contents")
  /\ Return(Rec("newline_and_here_doc_contents", "Ok", TRUE))
  /\ LexerSame /\ HereDocsSame /\ CallerSame

\* newline_and_here_doc_contents, lines 94-95.
newline_here_doc_contents ==
  /\ Running("newline_and_here_doc_contents", "here_doc_contents")
  /\ LET r == read_here_docs(unread_here_docs, index, here_docs)
     IN /\ index' = r.index
        /\ here_docs' = r.here_docs
        /\ unread_here_docs' = <<>>
        /\ IF r.ok
           THEN Return(Rec("newline_and_here_doc_contents", "Ok", TRUE))
           ELSE Fail(Error("here_doc_contents", "UnclosedHereDocContent",
                           <<r.index, r.index>>, <<>>))
  /\ UNCHANGED token
  /\ SourceSame /\ CallerSame

newline_and_here_doc_contents == newline_start \/ newline_here_doc_contents

\* command_line, lines 107-108: list is awaited.
command_line_start ==
  /\ Running("command_line", "start")
  /\ Call("list", <<>>, <<>>, "list")
  /\ LexerSame /\ HereDocsSame /\ CallerSame

\* command_line, lines 108-113: list has returned.
command_line_list ==
  /\ Running("command_line", "list") /\ ret.tag # "None"
  /\ IF is_parsed(ret)
     THEN Call("newline", ret.val, <<>>, "newline_and_here_doc_contents")
     ELSE Call("list", <<>>, <<>>, "list")
  /\ LexerSame /\ HereDocsSame /\ CallerSame

\* command_line with the test of line 122 moved out of the `if` of line 113:
\* an empty list yields Ok(None) also after a newline.
command_line_newline_none_on_empty ==
  /\ Running("command_line", "newline") /\ ret.tag # "None"
  /\ IF ret.val
     THEN UNCHANGED <<index, token>>
     ELSE Peeked
  /\ IF ~ret.val /\ peek_token.id # "EndOfInput"
     THEN Fail(Error("command_line", "InvalidCommandToken",
                     Location(peek_token), <<>>))
     ELSE IF Top.items = <<>>
          THEN Return(Rec("command_line", "Ok", <<>>))
          ELSE IF unread_here_docs # <<>>
               THEN Fail(MissingHereDocContent("command_line"))
               ELSE Return(Rec("command_line", "Ok", <<Top.items>>))
  /\ SourceSame /\ HereDocsSame /\ CallerSame

\* command_line with the error of lines 117-120 located after the token
\* instead of at the token.
command_line_newline_wrong_location ==
  /\ Running("command_line", "newline") /\ ret.tag # "None"
  /\ IF ret.val
     THEN UNCHANGED <<index, token>>
     ELSE Peeked
  /\ IF ~ret.val /\ peek_token.id # "EndOfInput"
     THEN Fail(Error("command_line", "InvalidCommandToken",
                     <<peek_token.end, peek_token.end>>, <<>>))
     ELSE IF ~ret.val /\ Top.items = <<>>
          THEN Return(Rec("command_line", "Ok", <<>>))
          ELSE IF unread_here_docs # <<>>
               THEN Fail(MissingHereDocContent("command_line"))
               ELSE Return(Rec("command_line", "Ok", <<Top.items>>))
  /\ SourceSame /\ HereDocsSame /\ CallerSame

\* command_line without line 127: the list is returned though a
\* here-document may still be unread.
command_line_newline_no_ensure ==
  /\ Running("command_line", "newline") /\ ret.tag # "None"
  /\ IF ret.val
     THEN UNCHANGED <<index, token>>
     ELSE Peeked
  /\ IF ~ret.val /\ peek_token.id # "EndOfInput"
     THEN Fail(Error("command_line", "InvalidCommandToken",
                     Location(peek_token), <<>>))
     ELSE IF ~ret.val /\ Top.items = <<>>
          THEN Return(Rec("command_line", "Ok", <<>>))
          ELSE Return(Rec("command_line", "Ok", <<Top.items>>))
  /\ SourceSame /\ HereDocsSame /\ CallerSame

\* command_line, lines 113-128: newline_and_here_doc_contents has returned.
command_line_newline ==
  /\ Running("command_line", "newline") /\ ret.tag # "None"
  /\ IF ret.val
     THEN UNCHANGED <<index, token>>
     ELSE Peeked
  /\ IF ~ret.val /\ peek_token.id # "EndOfInput"
     THEN Fail(Error("command_line", "InvalidCommandToken",
                     Location(peek_token), <<>>))
     ELSE IF ~ret.val /\ Top.items = <<>>
          THEN Return(Rec("command_line", "Ok", <<>>))
          ELSE IF unread_here_docs # <<>>
               THEN Fail(MissingHereDocContent("command_line"))
               ELSE Return(Rec("command_line", "Ok", <<Top.items>>))
  /\ SourceSame /\ HereDocsSame /\ CallerSame

command_line == command_line_start \/ command_line_list \/ command_line_newline

\* maybe_compound_list, lines 143-147: list is awaited.
maybe_compound_list_start ==
  /\ Running("maybe_compound_list", "start")
  /\ Call("list", <<>>, <<>>, "list")
  /\ LexerSame /\ HereDocsSame /\ CallerSame

\* maybe_compound_list, lines 147-153: list has returned.
maybe_compound_list_list ==
  /\ Running("maybe_compound_list", "list") /\ ret.tag # "None"
  /\ IF is_parsed(ret)
     THEN Call("newline", Top.items \o ret.val, <<>>,
               "newline_and_here_doc_contents")
     ELSE Call("list", Top.items, <<>>, "list")
  /\ LexerSame /\ HereDocsSame /\ CallerSame

\* maybe_compound_list without the test of line 159: the list is returned
\* whatever the token it stopped at.
maybe_compound_list_newline_any_token ==
  /\ Running("maybe_compound_list", "newline") /\ ret.tag # "None"
  /\ IF ret.val
     THEN /\ Call("list", Top.items, <<>>, "list")
          /\ UNCHANGED <<index, token>>
     ELSE /\ Peeked
          /\ Return(Rec("maybe_compound_list", "Ok", Top.items))
  /\ SourceSame /\ HereDocsSame /\ CallerSame

\* maybe_compound_list with the loop of lines 145-156 left after the first
\* newline.
maybe_compound_list_newline_first_line ==
  /\ Running("maybe_compound_list", "newline") /\ ret.tag # "None"
  /\ IF ret.val
     THEN /\ Return(Rec("maybe_compound_list", "Ok", Top.items))
          /\ UNCHANGED <<index, token>>
     ELSE /\ Peeked
          /\ IF is_clause_delimiter(peek_token.id)
             THEN Return(Rec("maybe_compound_list", "Ok", Top.items))
             ELSE Fail(Error("maybe_compound_list", "InvalidCommandToken",
                             Location(peek_token), <<>>))
  /\ SourceSame /\ HereDocsSame /\ CallerSame

\* maybe_compound_list, lines 153-165: newline_and_here_doc_contents has
\* returned.
maybe_compound_list_newline ==
  /\ Running("maybe_compound_list", "newline") /\ ret.tag # "None"
  /\ IF ret.val
     THEN /\ Call("list", Top.items, <<>>, "list")
          /\ UNCHANGED <<index, token>>
     ELSE /\ Peeked
          /\ IF is_clause_delimiter(peek_token.id)
             THEN Return(Rec("maybe_compound_list", "Ok", Top.items))
             ELSE Fail(Error("maybe_compound_list", "InvalidCommandToken",
                             Location(peek_token), <<>>))
  /\ SourceSame /\ HereDocsSame /\ CallerSame

maybe_compound_list ==
  maybe_compound_list_start \/ maybe_compound_list_list
    \/ maybe_compound_list_newline

(***************************************************************************)
(* while_loop.rs                                                           *)
(***************************************************************************)

\* while_loop, lines 36-39 (until_loop, 69-72): the opening reserved word is
\* taken and the condition awaited.  The callers enter only at that word.
loop_start(fn, keyword) ==
  /\ Running(fn, "start")
  /\ peek_token.id = keyword
  /\ Taken
  /\ Call("condition", <<>>, Location(peek_token), "maybe_compound_list")
  /\ SourceSame /\ HereDocsSame /\ CallerSame

\* while_loop without lines 40-46: an empty condition is accepted.
loop_condition_unchecked(fn, empty_condition) ==
  /\ Running(fn, "condition") /\ ret.tag # "None"
  /\ Call("body", ret.val, Top.aux, "do_clause")
  /\ LexerSame /\ HereDocsSame /\ CallerSame

\* while_loop, lines 39-48 (until_loop, 72-81): the condition has returned.
loop_condition(fn, empty_condition) ==
  /\ Running(fn, "condition") /\ ret.tag # "None"
  /\ IF ret.val = <<>>
     THEN /\ Taken
          /\ Fail(Error(fn, empty_condition, Location(peek_token), <<>>))
     ELSE /\ Call("body", ret.val, Top.aux, "do_clause")
          /\ UNCHANGED <<index, token>>
  /\ SourceSame /\ HereDocsSame /\ CallerSame

\* while_loop with the error of lines 50-56 carrying the location of the
\* token in place of the location of the opening word.
loop_body_opening_lost(fn, kind, unclosed_clause) ==
  /\ Running(fn, "body") /\ ret.tag # "None"
  /\ IF ret.val = <<>>
     THEN /\ Taken
          /\ Fail(Error(fn, unclosed_clause, Location(peek_token),
                        Location(peek_token)))
     ELSE /\ Return(Rec(fn, "Ok",
                        [type |-> kind, condition |-> Top.items,
                         body |-> ret.val[1], range |-> <<Top.aux[1], index>>]))
          /\ UNCHANGED <<index, token>>
  /\ SourceSame /\ HereDocsSame /\ CallerSame

\* while_loop with `None` of line 50 taken for an empty body instead of an
\* error.
loop_body_optional(fn, kind, unclosed_clause) ==
  /\ Running(fn, "body") /\ ret.tag # "None"
  /\ Return(Rec(fn, "Ok",
                [type |-> kind, condition |-> Top.items,
                 body |-> IF ret.val = <<>> THEN <<>> ELSE ret.val[1],
                 range |-> <<Top.aux[1], index>>]))
  /\ LexerSame /\ HereDocsSame /\ CallerSame

\* while_loop, lines 48-58 (until_loop, 81-91): do_clause has returned.
loop_body(fn, kind, unclosed_clause) ==
  /\ Running(fn, "body") /\ ret.tag # "None"
  /\ IF ret.val = <<>>
     THEN /\ Taken
          /\ Fail(Error(fn, unclosed_clause, Location(peek_token), Top.aux))
     ELSE /\ Return(Rec(fn, "Ok",
                        [type |-> kind, condition |-> Top.items,
                         body |-> ret.val[1], range |-> <<Top.aux[1], index>>]))
          /\ UNCHANGED <<index, token>>
  /\ SourceSame /\ HereDocsSame /\ CallerSame

while_loop ==
  \/ loop_start("while_loop", "While")
  \/ loop_condition("while_loop", "EmptyWhileCondition")
  \/ loop_body("while_loop", "While", "UnclosedWhileClause")

until_loop ==
  \/ loop_start("until_loop", "Until")
  \/ loop_condition("until_loop", "EmptyUntilCondition")
  \/ loop_body("until_loop", "Until", "UnclosedUntilClause")

(***************************************************************************)
(* The productions below the list                                          *)
(***************************************************************************)

\* Parser::do_clause: `do`, a compound list, `done`; None if there is no `do`.
do_clause_start ==
  /\ Running("do_clause", "start")
  /\ IF peek_token.id # "Do"
     THEN Peeked /\ Return(Rec("do_clause", "Ok", <<>>))
     ELSE Taken /\ Call("body", <<>>, Location(peek_token), "maybe_compound_list")
  /\ SourceSame /\ HereDocsSame /\ CallerSame

do_clause_body ==
  /\ Running("do_clause", "body") /\ ret.tag # "None"
  /\ Taken
  /\ IF peek_token.id # "Done"
     THEN Fail(Error("do_clause", "UnclosedDoClause", Location(peek_token),
                     Top.aux))
     ELSE IF ret.val = <<>>
          THEN Fail(Error("do_clause", "EmptyDoClause", Location(peek_token),
                          <<>>))
          ELSE Return(Rec("do_clause", "Ok", <<ret.val>>))
  /\ SourceSame /\ HereDocsSame /\ CallerSame

do_clause == do_clause_start \/ do_clause_body

\* Parser::compound_command: the dispatch on the first reserved word.
compound_command_start ==
  /\ Running("compound_command", "start")
  /\ Peeked
  /\ CASE peek_token.id = "While" -> Call("command", <<>>, <<>>, "while_loop")
       [] peek_token.id = "Until" -> Call("command", <<>>, <<>>, "until_loop")
       [] OTHER -> Return(Rec("compound_command", "Ok", <<>>))
  /\ SourceSame /\ HereDocsSame /\ CallerSame

compound_command_command ==
  /\ Running("compound_command", "command") /\ ret.tag # "None"
  /\ Return(Rec("compound_command", "Ok", <<ret.val>>))
  /\ LexerSame /\ HereDocsSame /\ CallerSame

compound_command == compound_command_start \/ compound_command_command

\* The aliases the token was substituted for: the source of its code.
token_origin(tok) == origin[tok.start + 1]

\* The code length up to which the variant below substitutes.
MaxRegrownCode == 8

\* Parser::substitute_alias without the set of the aliases already
\* substituted: a word that came from an alias is substituted again (while
\* the code is no longer than MaxRegrownCode, which keeps the states finite).
is_substitutable_again(tok, is_command_name) ==
  /\ IsToken(tok.id)
  /\ is_command_name
  /\ tok.word \in DOMAIN aliases
  /\ Len(code) <= MaxRegrownCode

\* Parser::substitute_alias: a literal word in command-name position that
\* names an alias and does not itself come from a substitution of that alias.
is_substitutable(tok, is_command_name) ==
  /\ IsToken(tok.id)
  /\ is_command_name
  /\ tok.word \in DOMAIN aliases
  /\ tok.word \notin token_origin(tok)

\* Lexer::substitute_alias: the token is replaced by the alias's value and
\* the lexer restarts at its first character.
substitute_alias(tok) ==
  LET value == aliases[tok.word]
      source == token_origin(tok) \cup {tok.word}
  IN /\ code' = SubSeq(code, 1, tok.start) \o value
                  \o SubSeq(code, tok.end + 1, Len(code))
     /\ origin' = SubSeq(origin, 1, tok.start)
                    \o [i \in 1..Len(value) |-> source]
                    \o SubSeq(origin, tok.end + 1, Len(origin))
     /\ index' = tok.start
     /\ token' = NoToken

\* The simple command built so far: words in items, <<redirs, range>> in aux.
simple_command_redirs == IF Top.aux = <<>> THEN <<>> ELSE Top.aux[1]

simple_command_aux(redirs, first, last) ==
  <<redirs, <<IF Top.aux = <<>> THEN first.start ELSE Top.aux[2][1], last.end>>>>

simple_command_is_empty == Top.items = <<>> /\ Top.aux = <<>>

simple_command_result ==
  IF simple_command_is_empty THEN <<>>
  ELSE <<[type |-> "Simple", words |-> Top.items,
          redirs |-> simple_command_redirs, range |-> Top.aux[2]]>>

\* Parser::simple_command, one turn of its loop: a here-document
\* redirection, a word (after alias substitution), or the end of the command.
simple_command ==
  /\ Running("simple_command", "start")
  /\ LET tok == peek_token
         operand == lex_token(code, tok.end)
     IN CASE tok.id = "LessLess" ->
               /\ index' = operand.end
               /\ token' = NoToken
               /\ SourceSame
               /\ IF IsToken(operand.id)
                  THEN /\ here_docs' = Append(here_docs,
                            [delimiter |-> operand.word,
                             location |-> Location(operand),
                             content |-> <<>>, filled |-> FALSE])
                       /\ unread_here_docs' =
                            Append(unread_here_docs, Len(here_docs) + 1)
                       /\ Goto("start", Top.items,
                               simple_command_aux(
                                 Append(simple_command_redirs,
                                        Len(here_docs) + 1), tok, operand))
                  ELSE /\ Fail(Error("redirection", "MissingHereDocDelimiter",
                                     Location(operand), <<>>))
                       /\ HereDocsSame
          [] tok.id \in KeywordIds /\ simple_command_is_empty ->
               /\ Peeked
               /\ Return(Rec("simple_command", "Parsed", <<>>))
               /\ SourceSame /\ HereDocsSame
          [] IsToken(tok.id) /\ is_substitutable(tok, Top.items = <<>>) ->
               /\ substitute_alias(tok)
               /\ IF simple_command_is_empty
                  THEN Return(Rec("simple_command", "AliasSubstituted", <<>>))
                  ELSE Goto("start", Top.items, Top.aux)
               /\ HereDocsSame
          [] IsToken(tok.id) /\ ~is_substitutable(tok, Top.items = <<>>) ->
               /\ Taken
               /\ Goto("start", Append(Top.items, tok.word),
                       simple_command_aux(simple_command_redirs, tok, tok))
               /\ SourceSame /\ HereDocsSame
          [] OTHER ->
               /\ Peeked
               /\ Return(Rec("simple_command", "Parsed", simple_command_result))
               /\ SourceSame /\ HereDocsSame
  /\ CallerSame

\* Parser::and_or_list, restricted to one pipeline of one command: a simple
\* command or, if there is none, a compound command.
and_or_list_start ==
  /\ Running("and_or_list", "start")
  /\ Call("simple", <<>>, <<>>, "simple_command")
  /\ LexerSame /\ HereDocsSame /\ CallerSame

and_or_list_simple ==
  /\ Running("and_or_list", "simple") /\ ret.tag # "None"
  /\ CASE ret.tag = "AliasSubstituted" ->
            Return(Rec("and_or_list", "AliasSubstituted", <<>>))
       [] ret.tag = "Parsed" /\ ret.val # <<>> ->
            Return(Rec("and_or_list", "Parsed", ret.val))
       [] OTHER -> Call("compound", <<>>, <<>>, "compound_command")
  /\ LexerSame /\ HereDocsSame /\ CallerSame

and_or_list_compound ==
  /\ Running("and_or_list", "compound") /\ ret.tag # "None"
  /\ Return(Rec("and_or_list", "Parsed", ret.val))
  /\ LexerSame /\ HereDocsSame /\ CallerSame

and_or_list == and_or_list_start \/ and_or_list_simple \/ and_or_list_compound

(***************************************************************************)
(* The caller and the specification                                        *)
(***************************************************************************)

\* The caller enters the parser at its entry point; a read-eval loop enters
\* command_line again after each command line it got.
call_entry ==
  /\ stack = <<>>
  /\ result.tag = "None"
       \/ (entry = "command_line" /\ result.tag = "Ok" /\ result.val # <<>>)
  /\ stack' = <<Frame(entry, "start", <<>>, <<>>)>>
  /\ ret' = NoRet
  /\ result' = NoRet
  /\ start' = peek_token
  /\ LexerSame /\ HereDocsSame /\ UNCHANGED <<aliases, entry, system>>

Next ==
  \/ call_entry
  \/ command_line
  \/ maybe_compound_list
  \/ list
  \/ newline_and_here_doc_contents
  \/ while_loop
  \/ until_loop
  \/ do_clause
  \/ compound_command
  \/ and_or_list
  \/ simple_command

Spec == Init /\ [][Next]_vars

\* The parser is a single future polled to completion: a step that can be
\* taken is taken.
AliasInit ==
  /\ system = NoSystem
  /\ code \in AliasInputs
  /\ origin = [i \in 1..Len(code) |-> {}]
  /\ index = 0
  /\ token = NoToken
  /\ here_docs = <<>>
  /\ unread_here_docs = <<>>
  /\ stack = <<>>
  /\ ret = NoRet
  /\ result = NoRet
  /\ aliases \in RecursiveAliasTables
  /\ entry \in EntryPoints
  /\ start = NoToken

FairSpec == AliasInit /\ [][Next]_vars /\ WF_vars(Next)

(***************************************************************************)
(* The AST seen from outside                                               *)
(***************************************************************************)

Range(f) == {f[k] : k \in DOMAIN f}

RECURSIVE list_here_docs(_)
\* The here-documents of the redirections in a list, as indices to here_docs.
list_here_docs(items) ==
  UNION {IF items[k].and_or.type = "Simple"
         THEN Range(items[k].and_or.redirs)
         ELSE list_here_docs(items[k].and_or.condition)
                \cup list_here_docs(items[k].and_or.body) : k \in DOMAIN items}

\* The call of the entry point has returned.
Returned == stack = <<>> /\ result.tag # "None"

\* command_line has returned Ok(Some(list)).
ReturnedCommandLine ==
  Returned /\ result.from = "command_line" /\ result.tag = "Ok"
    /\ result.val # <<>>

(***************************************************************************)
(* Claims                                                                  *)
(***************************************************************************)

\* C1: when command_line returns Ok(Some(list)), no here-document is left
\* unread and no here-document of the list (nor any parsed so far) is
\* without its content; and when command_line itself ends at end-of-input
\* with a here-document still unread, it returns a MissingHereDocContent
\* error, located at the delimiter of the oldest one, not a list.
C1_NoMissingHereDoc ==
  /\ ReturnedCommandLine =>
       /\ unread_here_docs = <<>>
       /\ \A id \in list_here_docs(result.val[1]) : here_docs[id].filled
       /\ \A id \in DOMAIN here_docs : here_docs[id].filled
  /\ (Returned /\ result.from = "command_line" /\ token.id = "EndOfInput"
        /\ unread_here_docs # <<>>) =>
       /\ result.tag = "Err"
       /\ result.cause = "MissingHereDocContent"
       /\ result.location = here_docs[Head(unread_here_docs)].location

\* A command line with a here-document has been returned.
C1_Witness ==
  ReturnedCommandLine /\ list_here_docs(result.val[1]) # {}

\* C2: a token is in the parser's lookahead only if no newline lies between
\* an unread here-document's operator and that token; and the lexer stands
\* right after a newline with a here-document unread only at the point of
\* newline_and_here_doc_contents where the contents are read next.
C2_ContentsReadAfterNewline ==
  /\ token.id # "None" =>
       \A k \in DOMAIN unread_here_docs :
         \A p \in (here_docs[unread_here_docs[k]].location[2] + 1)..token.start :
           code[p] # NL
  /\ (stack # <<>> /\ unread_here_docs # <<>> /\ token.id = "None"
        /\ index > 0 /\ code[index] = NL) =>
       Running("newline_and_here_doc_contents", "here_doc_contents")

\* A newline has been consumed and the content of a here-document read.
C2_Witness ==
  /\ ret.from = "newline_and_here_doc_contents" /\ ret.tag = "Ok" /\ ret.val
  /\ unread_here_docs = <<>>
  /\ \E id \in DOMAIN here_docs : here_docs[id].filled

\* The first token at the position where the caller entered, as the parser
\* reads it (in the code as alias substitution has left it).
FirstToken == lex_token(code, start.start)

\* C3 as stated: command_line returns Ok(None) exactly when the first token
\* is end-of-input; a line of only a newline yields Ok(Some(empty list)); a
\* non-empty list followed by end-of-input yields Ok(Some(list)).
C3_AsStated ==
  [][/\ (Returned /\ entry = "command_line")' =>
          /\ (result.tag = "Ok" /\ result.val = <<>>)'
               <=> (FirstToken.id = "EndOfInput")'
          /\ (FirstToken.id = "Newline")' =>
               (result = Rec("command_line", "Ok", <<<<>>>>))'
     /\ (Running("command_line", "newline") /\ ret.tag # "None" /\ ~ret.val
           /\ Top.items # <<>> /\ peek_token.id = "EndOfInput") =>
          result' = Rec("command_line", "Ok", <<Top.items>>)]_vars

\* C3, amended: command_line returns Ok(None) exactly when the first token
\* is end-of-input; a line of only a newline yields Ok(Some(empty list)); a
\* non-empty list followed by end-of-input yields Ok(Some(list)) if no
\* here-document is left unread, and the MissingHereDocContent error
\* otherwise.
C3_CommandLineResult ==
  [][/\ (Returned /\ entry = "command_line")' =>
          /\ (result.tag = "Ok" /\ result.val = <<>>)'
               <=> (FirstToken.id = "EndOfInput")'
          /\ (FirstToken.id = "Newline")' =>
               (result = Rec("command_line", "Ok", <<<<>>>>))'
     /\ (Running("command_line", "newline") /\ ret.tag # "None" /\ ~ret.val
           /\ Top.items # <<>> /\ peek_token.id = "EndOfInput") =>
          result' = IF unread_here_docs = <<>>
                    THEN Rec("command_line", "Ok", <<Top.items>>)
                    ELSE MissingHereDocContent("command_line")]_vars

\* command_line has parsed a non-empty list up to end-of-input and failed
\* for the here-document left unread.
C3_Witness ==
  /\ Returned /\ result.from = "command_line"
  /\ result.cause = "MissingHereDocContent"
  /\ token.id = "EndOfInput" /\ FirstToken.id = "LessLess"

\* C4: an InvalidCommandToken error of command_line is located at the token
\* in the lookahead, which is neither a newline nor end-of-input; when
\* command_line returns Ok the list was followed by a newline (consumed) or
\* by end-of-input; `foo)` fails at 3..4.
C4_InvalidCommandToken ==
  /\ (Returned /\ result.from = "command_line"
        /\ result.cause = "InvalidCommandToken") =>
       /\ token.id \notin {"None", "Newline", "EndOfInput"}
       /\ token = lex_token(code, token.start)
       /\ result.location = <<token.start, token.end>>
  /\ (Returned /\ entry = "command_line" /\ result.tag = "Ok") =>
       token.id \in {"None", "EndOfInput"}
  /\ (Returned /\ entry = "command_line" /\ code = InWrongDelimiter) =>
       /\ result.tag = "Err" /\ result.cause = "InvalidCommandToken"
       /\ result.location = <<3, 4>>

\* `foo)` has failed with InvalidCommandToken.
C4_Witness ==
  /\ Returned /\ result.from = "command_line"
  /\ result.cause = "InvalidCommandToken"
  /\ code = InWrongDelimiter /\ token.id = "CloseParen"

\* The clause delimiters as the claim lists them, and with `do` added.
ClaimedClauseDelimiters ==
  {"CloseBrace", "CloseParen", "Done", "Then", "Elif", "Else", "Fi", "Esac",
   "SemicolonSemicolon", "EndOfInput"}

AmendedClauseDelimiters == ClaimedClauseDelimiters \cup {"Do"}

\* C5 as stated: maybe_compound_list returns Ok if and only if it stops at
\* one of `}`, `)`, `done`, `then`, `elif`, `else`, `fi`, `esac`, `;;`,
\* end-of-input, and InvalidCommandToken at the token otherwise.
C5_AsStated ==
  /\ (ret.from = "maybe_compound_list" /\ ret.tag = "Ok") =>
       token.id \in ClaimedClauseDelimiters
  /\ (Returned /\ result.from = "maybe_compound_list" /\ result.tag = "Err") =>
       /\ result.cause = "InvalidCommandToken"
       /\ token.id \notin ClaimedClauseDelimiters \cup {"None"}
       /\ result.location = <<token.start, token.end>>

\* C5, amended: maybe_compound_list returns Ok if and only if it stops at
\* one of `}`, `)`, `do`, `done`, `then`, `elif`, `else`, `fi`, `esac`, `;;`,
\* end-of-input, and InvalidCommandToken at the token otherwise.
C5_ClauseDelimiter ==
  /\ (ret.from = "maybe_compound_list" /\ ret.tag = "Ok") =>
       token.id \in AmendedClauseDelimiters
  /\ (Returned /\ result.from = "maybe_compound_list" /\ result.tag = "Err") =>
       /\ result.cause = "InvalidCommandToken"
       /\ token.id \notin AmendedClauseDelimiters \cup {"None"}
       /\ token = lex_token(code, token.start)
       /\ result.location = <<token.start, token.end>>

\* maybe_compound_list has returned the condition of a loop, stopping at `do`.
C5_Witness ==
  /\ ret.from = "maybe_compound_list" /\ ret.tag = "Ok" /\ ret.val # <<>>
  /\ token.id = "Do"

\* The offsets before `upto` where a command starts in a code made only of
\* words, blanks, `;`, `&` and newlines: a word character with only blanks
\* between it and the separator before it.
CommandStarts(c, upto) ==
  {p \in 1..upto :
     /\ IsWordChar(c[p])
     /\ \E q \in 0..(p - 1) :
          /\ q = 0 \/ c[q] \in {";", "&", NL}
          /\ \A r \in (q + 1)..(p - 1) : c[r] = " "}

PlainCode ==
  /\ aliases = NoAliases
  /\ \A p \in DOMAIN code :
       code[p] \in {" ", ";", "&", NL, "a", "c", "e", "h", "l", "o", "s", "t"}

\* C6: when maybe_compound_list returns Ok it has not stopped at a newline;
\* its items are in source order; for a code of plain words it returns one
\* item per command before the token it stopped at, whatever the number of
\* lines; and after "echo& ls\n\ncat\n\n" the items are echo&, ls and cat and
\* the lexer is at offset 15.
C6_ConsumesNewlines ==
  /\ (ret.from = "maybe_compound_list" /\ ret.tag = "Ok") =>
       /\ token.id \notin {"None", "Newline"}
       /\ \A k \in 1..(Len(ret.val) - 1) :
            ret.val[k].and_or.range[2] <= ret.val[k + 1].and_or.range[1]
       /\ (PlainCode /\ stack = <<>>) =>
            /\ Len(ret.val) = Cardinality(CommandStarts(code, token.start))
            /\ \A k \in DOMAIN ret.val :
                 ret.val[k].and_or.range[1] + 1
                   \in CommandStarts(code, token.start)
  /\ (Returned /\ entry = "maybe_compound_list" /\ aliases = NoAliases
        /\ code = InSomeCommandsWithNewline) =>
       /\ result.tag = "Ok"
       /\ index = 15
       /\ Len(result.val) = 3
       /\ result.val[1].and_or.words = <<<<"e", "c", "h", "o">>>>
       /\ result.val[1].async_flag = <<4, 5>>
       /\ result.val[2].and_or.words = <<<<"l", "s">>>>
       /\ result.val[3].and_or.words = <<<<"c", "a", "t">>>>

\* "echo& ls\n\ncat\n\n" has been parsed to its end.
C6_Witness ==
  /\ Returned /\ result.from = "maybe_compound_list" /\ result.tag = "Ok"
  /\ code = InSomeCommandsWithNewline /\ aliases = NoAliases
  /\ index = 15 /\ Len(result.val) = 3

\* The character at offset i of the code, "" past its end.
CharAt(i) == IF i < Len(code) THEN code[i + 1] ELSE ""

\* C7: in a list that list returns, an item has an async_flag if and only if
\* the character after its and-or list (blanks skipped) is `&`, and the flag
\* is the location of that `&`; consecutive items are separated by exactly
\* one `;` or `&`; no item is empty; and the list is empty only if the token
\* it stopped at does not start a command.
C7_ListItems ==
  (ret.from = "list" /\ ret.tag = "Parsed") =>
    /\ \A k \in DOMAIN ret.val :
         LET item == ret.val[k]
             sep == skip_blanks(code, item.and_or.range[2])
         IN /\ item.async_flag # <<>> <=> CharAt(sep) = "&"
            /\ item.async_flag # <<>> => item.async_flag = <<sep, sep + 1>>
            /\ item.and_or.type = "Simple" =>
                 item.and_or.words # <<>> \/ item.and_or.redirs # <<>>
            /\ k < Len(ret.val) =>
                 /\ CharAt(sep) \in {";", "&"}
                 /\ skip_blanks(code, sep + 1) = ret.val[k + 1].and_or.range[1]
    /\ ret.val = <<>> => token.id \notin {"Word", "LessLess", "While", "Until"}

\* "foo & bar ; baz&" has been parsed to three items, the first and the
\* last asynchronous.
C7_Witness ==
  /\ ret.from = "list" /\ ret.tag = "Parsed" /\ code = InListManyItems
  /\ Len(ret.val) = 3
  /\ ret.val[1].async_flag = <<4, 5>>
  /\ ret.val[2].async_flag = <<>>
  /\ ret.val[3].async_flag = <<15, 16>>

\* C8: list returns AliasSubstituted only when its first and_or_list has
\* (no item collected); after a separator, list answers AliasSubstituted by
\* calling and_or_list again with the items it has; command_line and
\* maybe_compound_list answer it by calling list again with what they hold,
\* and never return it.
C8_RestartKeepsWork ==
  [][/\ (ret'.from = "list" /\ ret'.tag = "AliasSubstituted") =>
          /\ Running("list", "first")
          /\ ret.from = "and_or_list" /\ ret.tag = "AliasSubstituted"
          /\ Top.items = <<>>
     /\ (Running("list", "rest") /\ ret.tag = "AliasSubstituted") =>
          stack' = Append(stack, Frame("and_or_list", "start", <<>>, <<>>))
     /\ (Running("command_line", "list") /\ ret.tag = "AliasSubstituted") =>
          stack' = Append(stack, Frame("list", "start", <<>>, <<>>))
     /\ (Running("maybe_compound_list", "list")
           /\ ret.tag = "AliasSubstituted") =>
          stack' = Append(stack, Frame("list", "start", <<>>, <<>>))
     /\ ret'.from \in {"command_line", "maybe_compound_list"} =>
          ret'.tag # "AliasSubstituted"
     /\ result'.tag # "AliasSubstituted"]_vars

\* After a separator, with an item collected, and_or_list has reported an
\* alias substitution to list.
C8_Witness ==
  /\ Running("list", "rest") /\ ret.tag = "AliasSubstituted"
  /\ Top.items # <<>>

\* C9: the parser comes to rest: from some point on every call has returned,
\* with a result or an error, and no production is left restarting on
\* AliasSubstituted; aliases that name themselves or each other included.
C9_AliasTerminates == <>[](Returned /\ ret.tag # "AliasSubstituted")

\* The parser has returned after substituting `a`, then `b`, and leaving
\* the `a` that came from both.
C9_Witness ==
  /\ Returned /\ aliases = MutualAliases
  /\ \E p \in DOMAIN origin : origin[p] = {<<"a">>, <<"b">>} /\ code[p] = "a"

\* The first token at or after offset i that is not a newline.
RECURSIVE first_command_token(_, _)
first_command_token(c, i) ==
  LET tok == lex_token(c, i)
  IN IF tok.id = "Newline" THEN first_command_token(c, tok.end) ELSE tok

\* The reserved word that opens the loop each function parses.
LoopKeyword == [while_loop |-> "While", until_loop |-> "Until"]

EmptyCondition ==
  [while_loop |-> "EmptyWhileCondition", until_loop |-> "EmptyUntilCondition"]

\* C10: an EmptyWhileCondition (EmptyUntilCondition) error comes from
\* while_loop (until_loop); its location is that of a token, the first
\* other than a newline after a `while` (`until`), which has been taken;
\* no loop is parsing or has parsed a do-clause with an empty condition;
\* ` while do :; done` fails at 7..9 and `  until do :; done` at 8..10.
C10_EmptyCondition ==
  /\ \A fn \in DOMAIN LoopKeyword :
       (Returned /\ result.cause = EmptyCondition[fn]) =>
         /\ result.from = fn /\ result.tag = "Err"
         /\ token = NoToken
         /\ \E k \in 0..Len(code) :
              LET keyword == lex_token(code, k)
                  tok == first_command_token(code, keyword.end)
              IN /\ keyword.id = LoopKeyword[fn]
                 /\ tok.id \in AmendedClauseDelimiters
                 /\ result.location = <<tok.start, tok.end>>
                 /\ index = tok.end
  /\ \A d \in DOMAIN stack :
       (stack[d].fn \in DOMAIN LoopKeyword /\ stack[d].pc = "body") =>
         stack[d].items # <<>>
  /\ (ret.from \in DOMAIN LoopKeyword /\ ret.tag = "Ok") =>
       ret.val.condition # <<>>
  /\ (Returned /\ code = InWhileEmpty) =>
       result = Error("while_loop", "EmptyWhileCondition", <<7, 9>>, <<>>)
  /\ (Returned /\ code = InUntilEmpty) =>
       result = Error("until_loop", "EmptyUntilCondition", <<8, 10>>, <<>>)

\* ` while do :; done` has failed with EmptyWhileCondition at its `do`.
C10_Witness ==
  /\ Returned /\ code = InWhileEmpty
  /\ result.from = "while_loop" /\ result.cause = "EmptyWhileCondition"
  /\ result.location = <<7, 9>>

UnclosedClause ==
  [while_loop |-> "UnclosedWhileClause", until_loop |-> "UnclosedUntilClause"]

\* C11: an UnclosedWhileClause (UnclosedUntilClause) error comes from
\* while_loop (until_loop); its opening location is the range of a `while`
\* (`until`) word; its location is that of the token after the condition,
\* which is not `do` and has been taken; `while :` fails at 7..7 with the
\* opening location 0..5, and so does `until :`.
C11_UnclosedClause ==
  /\ \A fn \in DOMAIN LoopKeyword :
       (Returned /\ result.cause = UnclosedClause[fn]) =>
         /\ result.from = fn /\ result.tag = "Err"
         /\ result.val # <<>>
         /\ LET keyword == lex_token(code, result.val[1])
                tok == lex_token(code, result.location[1])
            IN /\ keyword.id = LoopKeyword[fn]
               /\ result.val = <<keyword.start, keyword.end>>
               /\ keyword.end <= tok.start
               /\ tok.id # "Do"
               /\ result.location = <<tok.start, tok.end>>
               /\ index = tok.end
         /\ token = NoToken
  /\ (Returned /\ code = InWhileUnclosed) =>
       result = Error("while_loop", "UnclosedWhileClause", <<7, 7>>, <<0, 5>>)
  /\ (Returned /\ code = InUntilUnclosed) =>
       result = Error("until_loop", "UnclosedUntilClause", <<7, 7>>, <<0, 5>>)

\* `while :` has failed with UnclosedWhileClause.
C11_Witness ==
  /\ Returned /\ code = InWhileUnclosed
  /\ result.cause = "UnclosedWhileClause" /\ result.val = <<0, 5>>

\* C12: a While or Until that while_loop or until_loop returns has a
\* condition of at least one item and a body of at least one item.
C12_NonEmptyLoop ==
  (ret.from \in DOMAIN LoopKeyword /\ ret.tag = "Ok") =>
    /\ ret.val.type = LoopKeyword[ret.from]
    /\ Len(ret.val.condition) >= 1
    /\ Len(ret.val.body) >= 1

\* `while true; do :; done` has been parsed to a While.
C12_Witness ==
  /\ ret.from = "while_loop" /\ ret.tag = "Ok" /\ code = InWhileShort
  /\ Len(ret.val.condition) = 1 /\ Len(ret.val.body) = 1

\* C13 as stated: a list that maybe_compound_list returns holds no
\* here-document whose content is unread.
C13_AsStated ==
  (ret.from = "maybe_compound_list" /\ ret.tag = "Ok") =>
    \A id \in list_here_docs(ret.val) : here_docs[id].filled

(***************************************************************************)
(* The parser of src/src/parser.rs: redirection and simple_command over a  *)
(* lexer whose tokens are words (Token) and operators, and which reports   *)
(* the end of the input as an error.                                       *)
(***************************************************************************)

\* The longest generated input of this parser, in lexemes.
MaxParserLexemes == 3

\* parser_redirection_lessless: "<<end "
InLessLess == <<"<", "<", "e", "n", "d", " ">>

\* parser_redirection_lesslessdash: "<<-end "
InLessLessDash == <<"<", "<", "-", "e", "n", "d", " ">>

\* parser_redirection_not_operator: "x"
InNotOperator == <<"x">>

\* parser_redirection_not_heredoc_delimiter: "<< <<"
InNotHereDocDelimiter == <<"<", "<", " ", "<", "<">>

\* parser_redirection_eof_heredoc_delimiter: "<<"
InEofHereDocDelimiter == <<"<", "<">>

ParserTestInputs ==
  {InLessLess, InLessLessDash, InNotOperator, InNotHereDocDelimiter,
   InEofHereDocDelimiter}

ParserLexemes ==
  {<<"<", "<">>, <<"<", "<", "-">>, <<"a">>, <<" ">>, <<";">>, <<"3">>,
   <<NL>>}

ParserInputs ==
  ParserTestInputs \cup Concatenations(ParserLexemes, MaxParserLexemes)

ParserEntryPoints == {"redirection", "simple_command"}

\* Lexer::next_token: a word is a Token whatever it spells, `<<-` is one
\* operator, and the end of the input is reported in place of a token.
parser_token(c, i) ==
  LET t == lex_token(c, i)
  IN IF t.id = "LessLess" /\ t.end < Len(c) /\ c[t.end + 1] = "-"
     THEN Tok("LessLessDash", <<"<", "<", "-">>, t.start, t.end + 1)
     ELSE IF IsToken(t.id) THEN Tok("Token", t.word, t.start, t.end) ELSE t

\* TokenId::Operator(_).
is_operator(id) == id \notin {"Token", "EndOfInput", "None"}

\* Location {line, column}, both counted from 1, of the character at offset i.
line_column(c, i) ==
  LET newlines == {p \in 1..i : c[p] = NL}
      last == IF newlines = {} THEN 0
              ELSE CHOOSE p \in newlines : \A q \in newlines : q <= p
  IN <<Cardinality(newlines) + 1, i + 1 - last>>

\* Parser::peek_token of this parser: the lookahead, read if there is none.
parser_peek == IF token.id # "None" THEN token ELSE parser_token(code, index)

\* What a call leaves: its result, the lookahead and the lexer's position.
Outcome(res, lookahead, position) ==
  [result |-> res, token |-> lookahead, index |-> position]

\* The unit value HereDoc(MissingHereDoc) of RedirBody.
MissingHereDoc == "MissingHereDoc"

\* Lines 53-58 with the token taken as well.
redirection_not_operator_taken(operator) ==
  Outcome(Error("redirection", "Unknown",
                line_column(code, operator.start), <<>>),
          NoToken, operator.end)

\* redirection, lines 53-58: the token is not `<<` or `<<-`; it stays in the
\* lookahead.
redirection_not_operator(operator) ==
  Outcome(Error("redirection", "Unknown",
                line_column(code, operator.start), <<>>),
          operator, operator.end)

\* Lines 60 and 63 with the missing token passed over: a Redir is returned.
redirection_end_of_input_ignored(tok) ==
  Outcome(Rec("redirection", "Ok", [fd |-> <<>>, body |-> MissingHereDoc]),
          NoToken, tok.end)

\* redirection, lines 60 and 63: take_token reports the end of the input,
\* at the place where it is.
redirection_end_of_input(tok) ==
  Outcome(Error("redirection", "EndOfInput",
                line_column(code, tok.start), <<>>),
          NoToken, tok.end)

\* Lines 66-71 with the error located at the operand.
redirection_not_delimiter_at_operand(operator, operand) ==
  Outcome(Error("redirection", "MissingHereDocDelimiter",
                line_column(code, operand.start), <<>>),
          NoToken, operand.end)

\* redirection, lines 66-71: the operand is an operator.
redirection_not_delimiter(operator, operand) ==
  Outcome(Error("redirection", "MissingHereDocDelimiter",
                line_column(code, operator.start), <<>>),
          NoToken, operand.end)

\* redirection, lines 76-79: the operator and the operand have been taken.
redirection_here_doc(operator, operand) ==
  Outcome(Rec("redirection", "Ok", [fd |-> <<>>, body |-> MissingHereDoc]),
          NoToken, operand.end)

\* Parser::redirection, lines 45-80, called with the token in the lookahead
\* and the token after it.
redirection_outcome(operator, operand) ==
  IF operator.id = "EndOfInput" THEN redirection_end_of_input(operator)
  ELSE IF operator.id \notin {"LessLess", "LessLessDash"}
  THEN redirection_not_operator(operator)
  ELSE IF operand.id = "EndOfInput" THEN redirection_end_of_input(operand)
  ELSE IF operand.id = "Token" THEN redirection_here_doc(operator, operand)
  ELSE redirection_not_delimiter(operator, operand)

\* A call of Parser::redirection.
redirection ==
  /\ entry = "redirection"
  /\ start' = parser_peek
  /\ result' = redirection_outcome(parser_peek,
                                   parser_token(code, parser_peek.end)).result
  /\ token' = redirection_outcome(parser_peek,
                                  parser_token(code, parser_peek.end)).token
  /\ index' = redirection_outcome(parser_peek,
                                  parser_token(code, parser_peek.end)).index
  /\ UNCHANGED <<code, origin, here_docs, unread_here_docs, stack, ret,
                 aliases, entry, system>>

RECURSIVE take_words(_, _)
\* simple_command, lines 86-96: the word of every token from offset i up to
\* the end of the input.
take_words(c, i) ==
  LET t == parser_token(c, i)
  IN IF t.id = "EndOfInput" THEN <<>>
     ELSE <<t.word>> \o take_words(c, t.end)

\* Parser::simple_command of src/src/parser.rs, lines 83-101.
parser_simple_command ==
  /\ entry = "simple_command"
  /\ LET first == parser_peek
     IN /\ start' = first
        /\ result' =
             Rec("simple_command", "Ok",
                 [words |-> IF first.id = "EndOfInput" THEN <<>>
                            ELSE <<first.word>> \o take_words(code, first.end),
                  redirs |-> <<>>])
  /\ token' = NoToken
  /\ index' = Len(code)
  /\ UNCHANGED <<code, origin, here_docs, unread_here_docs, stack, ret,
                 aliases, entry, system>>

ParserInit ==
  /\ system = NoSystem
  /\ code \in ParserInputs
  /\ origin = [i \in 1..Len(code) |-> {}]
  /\ index = 0
  /\ token = NoToken
  /\ here_docs = <<>>
  /\ unread_here_docs = <<>>
  /\ stack = <<>>
  /\ ret = NoRet
  /\ result = NoRet
  /\ aliases = NoAliases
  /\ entry \in ParserEntryPoints
  /\ start = NoToken

ParserNext == redirection \/ parser_simple_command

ParserSpec == ParserInit /\ [][ParserNext]_vars

\* redirection has been called and has returned.
ReturnedRedirection == entry = "redirection" /\ result.tag # "None"

HereDocOperators == {"LessLess", "LessLessDash"}

\* The token after the one the call began at.
Operand == parser_token(code, start.end)

\* C14: an Unknown error of redirection is located at the token the call
\* began at, which is not `<<` or `<<-` and is still in the lookahead; a call
\* that begins at a token other than these operators fails so; `x` fails at
\* line 1, column 1.
C14_NotOperator ==
  /\ (ReturnedRedirection /\ result.cause = "Unknown") =>
       /\ result.tag = "Err"
       /\ token = start
       /\ token = parser_token(code, token.start)
       /\ token.id \notin HereDocOperators \cup {"None", "EndOfInput"}
       /\ result.location = line_column(code, token.start)
  /\ (ReturnedRedirection
        /\ start.id \notin HereDocOperators \cup {"EndOfInput"}) =>
       result.cause = "Unknown"
  /\ (ReturnedRedirection /\ code = InNotOperator) =>
       /\ result = Error("redirection", "Unknown", <<1, 1>>, <<>>)
       /\ token.word = <<"x">>

\* `x` has been refused.
C14_Witness ==
  /\ ReturnedRedirection /\ code = InNotOperator
  /\ result.cause = "Unknown" /\ token.id = "Token"

\* C15: a MissingHereDocDelimiter error of redirection is located at the
\* `<<` or `<<-` the call began at, and the token after it is an operator;
\* a call that begins at `<<` or `<<-` followed by an operator fails so;
\* `<< <<` fails at line 1, column 1.
C15_MissingDelimiter ==
  /\ (ReturnedRedirection /\ result.cause = "MissingHereDocDelimiter") =>
       /\ result.tag = "Err"
       /\ start.id \in HereDocOperators
       /\ is_operator(Operand.id)
       /\ result.location = line_column(code, start.start)
  /\ (ReturnedRedirection /\ start.id \in HereDocOperators
        /\ is_operator(Operand.id)) =>
       result.cause = "MissingHereDocDelimiter"
  /\ (ReturnedRedirection /\ code = InNotHereDocDelimiter
        /\ start.start = 0) =>
       result = Error("redirection", "MissingHereDocDelimiter", <<1, 1>>, <<>>)

\* `<< <<` has been refused.
C15_Witness ==
  /\ ReturnedRedirection /\ code = InNotHereDocDelimiter
  /\ result.cause = "MissingHereDocDelimiter" /\ Operand.id = "LessLess"

\* C16: a call of redirection that begins at `<<` or `<<-` followed by the
\* end of the input fails with EndOfInput, located at the end of the input,
\* and returns no Redir; `<<` fails at line 1, column 3.
C16_EndOfInput ==
  /\ (ReturnedRedirection /\ start.id \in HereDocOperators
        /\ Operand.id = "EndOfInput") =>
       /\ result.tag = "Err" /\ result.cause = "EndOfInput"
       /\ result.location = line_column(code, Operand.start)
       /\ Operand.start = Len(code)
  /\ (ReturnedRedirection /\ code = InEofHereDocDelimiter) =>
       result = Error("redirection", "EndOfInput", <<1, 3>>, <<>>)

\* `<<` has been refused at the end of the input.
C16_Witness ==
  /\ ReturnedRedirection /\ code = InEofHereDocDelimiter
  /\ start.id = "LessLess" /\ result.cause = "EndOfInput"

\* C17 as stated: when redirection returns Ok, the queue of pending
\* here-documents has grown at its end by one here-document, which records
\* the operand as its delimiter and whether the operator was `<<-`.
C17_AsStated ==
  [][(entry = "redirection" /\ result'.tag = "Ok") =>
       /\ Len(unread_here_docs') = Len(unread_here_docs) + 1
       /\ SubSeq(unread_here_docs', 1, Len(unread_here_docs)) = unread_here_docs
       /\ LET doc == here_docs'[unread_here_docs'[Len(unread_here_docs')]]
          IN /\ doc.delimiter = parser_token(code, start'.end).word
             /\ doc.remove_tabs = (start'.id = "LessLessDash")]_vars

Digits == {"0", "1", "2", "3", "4", "5", "6", "7", "8", "9"}

\* A run of digits immediately followed by `<` or `>`.
IsIoNumber(tok) ==
  /\ tok.id = "Token"
  /\ \A k \in DOMAIN tok.word : tok.word[k] \in Digits
  /\ tok.end < Len(code) /\ code[tok.end + 1] \in {"<", ">"}

DigitValue(ch) ==
  CASE ch = "0" -> 0 [] ch = "1" -> 1 [] ch = "2" -> 2 [] ch = "3" -> 3
    [] ch = "4" -> 4 [] ch = "5" -> 5 [] ch = "6" -> 6 [] ch = "7" -> 7
    [] ch = "8" -> 8 [] ch = "9" -> 9

RECURSIVE NumberValue(_)
NumberValue(word) ==
  IF word = <<>> THEN 0
  ELSE 10 * NumberValue(SubSeq(word, 1, Len(word) - 1))
         + DigitValue(word[Len(word)])

\* C18 as stated: a call of redirection that begins at an IoNumber followed
\* by `<<` or `<<-` and a word returns a Redir whose fd is that number; and
\* the fd of a Redir is None only when the call did not begin at an IoNumber.
C18_AsStated ==
  /\ (ReturnedRedirection /\ IsIoNumber(start)
        /\ Operand.id \in HereDocOperators
        /\ parser_token(code, Operand.end).id = "Token") =>
       /\ result.tag = "Ok"
       /\ result.val.fd = <<NumberValue(start.word)>>
  /\ (ReturnedRedirection /\ result.tag = "Ok" /\ result.val.fd = <<>>) =>
       ~IsIoNumber(start)

\* The tokens that end a simple command: the operators other than those of
\* redirection, and the end of the input.
is_delimiter(id) ==
  id = "EndOfInput" \/ (is_operator(id) /\ id \notin HereDocOperators)

RECURSIVE first_delimiter(_, _)
first_delimiter(c, i) ==
  LET t == parser_token(c, i)
  IN IF is_delimiter(t.id) THEN t ELSE first_delimiter(c, t.end)

\* C19 as stated: when simple_command returns, the first delimiter token at
\* or after the token it began at is the next token to be read, and no word
\* it returns is the word of an operator token.
C19_AsStated ==
  (entry = "simple_command" /\ result.tag # "None") =>
    /\ parser_peek = first_delimiter(code, start.start)
    /\ \A k \in DOMAIN result.val.words :
         IsWordChar(result.val.words[k][1])

\* C20 as stated: a SimpleCommand that simple_command returns has a word or
\* a redirection (it has no assignments).
C20_AsStated ==
  (entry = "simple_command" /\ result.tag = "Ok") =>
    result.val.words # <<>> \/ result.val.redirs # <<>>

(***************************************************************************)
(* src/src/syntax.rs: words, quote removal, literals and assignments       *)
(***************************************************************************)

\* The most units a word under conversion has.
MaxUnits == 3

\* TextUnit, lines 96-112.
Literal(c) == [type |-> "Literal", c |-> c]

Backslashed(c) == [type |-> "Backslashed", c |-> c]

CommandSubst(content) == [type |-> "CommandSubst", content |-> content]

\* WordUnit, lines 193-204.
Unquoted(unit) == [type |-> "Unquoted", unit |-> unit]

SingleQuote(s) == [type |-> "SingleQuote", s |-> s]

DoubleQuote(text) == [type |-> "DoubleQuote", text |-> text]

Tilde(s) == [type |-> "Tilde", s |-> s]

\* Word, lines 257-262.
Word(units, location) == [units |-> units, location |-> location]

\* The units the words under conversion are made of.
WordUnits ==
  {Unquoted(Literal("a")), Unquoted(Literal("1")), Unquoted(Literal("=")),
   Unquoted(Backslashed("b")), Unquoted(CommandSubst(<<"c">>)),
   SingleQuote(<<"d">>), DoubleQuote(<<Literal("e")>>),
   DoubleQuote(<<Backslashed("f")>>), Tilde(<<"g">>)}

RECURSIVE UnitSequences(_)
\* The sequences of at most n word units.
UnitSequences(n) ==
  IF n = 0 THEN {<<>>}
  ELSE UnitSequences(n - 1)
         \cup {Append(s, u) : s \in {t \in UnitSequences(n - 1) : Len(t) = n - 1},
                              u \in WordUnits}

\* The locations a word may have: that of Location::dummy and one more.
WordLocations == {1, 2}

Words == {Word(units, location) : units \in UnitSequences(MaxUnits),
                                  location \in WordLocations}

\* The collections extend_if_literal is handed: an empty and a non-empty one.
Collections == {<<>>, <<"x">>}

\* The functions of syntax.rs a caller applies to a word.
SyntaxEntryPoints == {"try_from", "unquote", "extend_if_literal"}

\* impl Unquote for TextUnit, lines 126-142: what is written to w, and
\* whether a quote was removed.
TextUnit_write_unquoted(unit, w) ==
  CASE unit.type = "Literal" -> [w |-> Append(w, unit.c), quoted |-> FALSE]
    [] unit.type = "Backslashed" -> [w |-> Append(w, unit.c), quoted |-> TRUE]
    [] unit.type = "CommandSubst" ->
         [w |-> w \o <<"$", "(">> \o unit.content \o <<")">>,
          quoted |-> FALSE]

RECURSIVE Text_write_unquoted(_, _, _)
\* impl Unquote for [T], lines 80-84, on text units from the k-th on, and
\* impl Unquote for Text, lines 179-182.
Text_write_unquoted(units, k, w) ==
  IF k > Len(units) THEN [w |-> w, quoted |-> FALSE]
  ELSE LET item == TextUnit_write_unquoted(units[k], w)
           rest == Text_write_unquoted(units, k + 1, item.w)
       IN [w |-> rest.w, quoted |-> item.quoted \/ rest.quoted]

\* impl Unquote for WordUnit, lines 219-233.
WordUnit_write_unquoted(unit, w) ==
  CASE unit.type = "Unquoted" -> TextUnit_write_unquoted(unit.unit, w)
    [] unit.type = "SingleQuote" -> [w |-> w \o unit.s, quoted |-> TRUE]
    [] unit.type = "DoubleQuote" -> Text_write_unquoted(unit.text, 1, w)
    [] unit.type = "Tilde" -> [w |-> w \o <<"~">> \o unit.s, quoted |-> FALSE]

RECURSIVE Word_write_unquoted(_, _, _)
\* impl Unquote for [T], lines 80-84, on word units from the k-th on, and
\* impl Unquote for Word, lines 270-273.
Word_write_unquoted(units, k, w) ==
  IF k > Len(units) THEN [w |-> w, quoted |-> FALSE]
  ELSE LET item == WordUnit_write_unquoted(units[k], w)
           rest == Word_write_unquoted(units, k + 1, item.w)
       IN [w |-> rest.w, quoted |-> item.quoted \/ rest.quoted]

\* Unquote::unquote, lines 51-57, on a word: (unquoted, is_quoted).
unquote(word) ==
  LET written == Word_write_unquoted(word.units, 1, <<>>)
  IN <<written.w, written.quoted>>

\* impl MaybeLiteral for TextUnit, lines 145-156.
TextUnit_extend_if_literal(unit, collected) ==
  IF unit.type = "Literal"
  THEN [ok |-> TRUE, result |-> Append(collected, unit.c)]
  ELSE [ok |-> FALSE, result |-> collected]

\* impl MaybeLiteral for WordUnit, lines 236-245.
WordUnit_extend_if_literal(unit, collected) ==
  IF unit.type = "Unquoted"
  THEN TextUnit_extend_if_literal(unit.unit, collected)
  ELSE [ok |-> FALSE, result |-> collected]

RECURSIVE extend_if_literal(_, _, _)
\* impl MaybeLiteral for [T], lines 87-91: try_fold hands the collection
\* from unit to unit and stops at the first Err, which holds the collection
\* as the units before it left it.
extend_if_literal(units, k, collected) ==
  IF k > Len(units) THEN [ok |-> TRUE, result |-> collected]
  ELSE LET unit == WordUnit_extend_if_literal(units[k], collected)
       IN IF unit.ok THEN extend_if_literal(units, k + 1, unit.result)
          ELSE unit

\* MaybeLiteral::to_string_if_literal, lines 75-77: an Option.
to_string_if_literal(units) ==
  LET extended == extend_if_literal(units, 1, <<>>)
  IN IF extended.ok THEN <<extended.result>> ELSE <<>>

\* `word.units.iter().position(|u| u == &Unquoted(Literal('=')))`, line 335,
\* as an Option of a 0-based index.
position_of_equal(units) ==
  LET found == {k \in DOMAIN units : units[k] = Unquoted(Literal("="))}
  IN IF found = {} THEN <<>>
     ELSE <<(CHOOSE k \in found : \A j \in found : k <= j) - 1>>

\* The drain of line 339 done before the name is looked at.
Assign_try_from_drained(word) ==
  LET eq == position_of_equal(word.units)
      drained == IF eq = <<>> THEN word
                 ELSE Word(SubSeq(word.units, eq[1] + 2, Len(word.units)),
                           word.location)
  IN IF eq # <<>> /\ eq[1] > 0
          /\ to_string_if_literal(SubSeq(word.units, 1, eq[1])) # <<>>
     THEN Rec("try_from", "Ok",
              [name |-> to_string_if_literal(SubSeq(word.units, 1, eq[1]))[1],
               value |-> [type |-> "Scalar", word |-> drained],
               location |-> word.location])
     ELSE Rec("try_from", "Err", drained)

\* impl TryFrom<Word> for Assign, lines 334-353.
Assign_try_from(word) ==
  LET eq == position_of_equal(word.units)
  IN IF eq # <<>> /\ eq[1] > 0
          /\ to_string_if_literal(SubSeq(word.units, 1, eq[1])) # <<>>
     THEN Rec("try_from", "Ok",
              [name |-> to_string_if_literal(SubSeq(word.units, 1, eq[1]))[1],
               value |-> [type |-> "Scalar",
                          word |-> Word(SubSeq(word.units, eq[1] + 2,
                                               Len(word.units)),
                                        word.location)],
               location |-> word.location])
     ELSE Rec("try_from", "Err", word)

\* A call of Assign::try_from(word).
try_from_call ==
  /\ entry = "try_from"
  /\ result.tag = "None"
  /\ result' = Assign_try_from(start.word)
  /\ UNCHANGED <<code, origin, index, token, here_docs, unread_here_docs,
                 stack, ret, aliases, entry, start, system>>

\* A call of word.unquote().
unquote_call ==
  /\ entry = "unquote"
  /\ result.tag = "None"
  /\ result' = Rec("unquote", "Ok", unquote(start.word))
  /\ UNCHANGED <<code, origin, index, token, here_docs, unread_here_docs,
                 stack, ret, aliases, entry, start, system>>

\* A call of word.extend_if_literal(result).
extend_if_literal_call ==
  /\ entry = "extend_if_literal"
  /\ result.tag = "None"
  /\ LET extended == extend_if_literal(start.word.units, 1, start.result)
     IN result' = Rec("extend_if_literal",
                      IF extended.ok THEN "Ok" ELSE "Err", extended.result)
  /\ UNCHANGED <<code, origin, index, token, here_docs, unread_here_docs,
                 stack, ret, aliases, entry, start, system>>

\* The caller holds a word (in start, with the collection it hands to
\* extend_if_literal) and has not applied the function yet.
SyntaxInit ==
  /\ system = NoSystem
  /\ code = <<>>
  /\ origin = <<>>
  /\ index = 0
  /\ token = NoToken
  /\ here_docs = <<>>
  /\ unread_here_docs = <<>>
  /\ stack = <<>>
  /\ ret = NoRet
  /\ result = NoRet
  /\ aliases = NoAliases
  /\ entry \in SyntaxEntryPoints
  /\ start \in {[word |-> word, result |-> collected] :
                  word \in Words,
                  collected \in IF entry = "extend_if_literal"
                                THEN Collections ELSE {<<>>}}

SyntaxNext == try_from_call \/ unquote_call \/ extend_if_literal_call

SyntaxSpec == SyntaxInit /\ [][SyntaxNext]_vars

(***************************************************************************)
(* Claims about syntax.rs                                                  *)
(***************************************************************************)

\* Assign::try_from(word) has returned.
ReturnedTryFrom == entry = "try_from" /\ result.tag # "None"

\* The unit is an unquoted literal character.
IsLiteralUnit(unit) == unit.type = "Unquoted" /\ unit.unit.type = "Literal"

\* The characters of units that are all unquoted literals.
LiteralChars(units) == [k \in DOMAIN units |-> units[k].unit.c]

NameStartChars ==
  {"a", "b", "c", "d", "e", "f", "g", "h", "i", "j", "k", "l", "m", "n", "o",
   "p", "q", "r", "s", "t", "u", "v", "w", "x", "y", "z", "_"}

\* A name (identifier): a letter or underscore, then letters, digits and
\* underscores.
is_name(s) ==
  /\ s # <<>>
  /\ s[1] \in NameStartChars
  /\ \A k \in DOMAIN s : s[k] \in NameStartChars \cup Digits

\* C21 as stated: Assign::try_from(word) succeeds if and only if the first
\* unquoted literal `=` of the word is at a unit index > 0 and the units
\* before it are all unquoted literal characters that form a valid name; on
\* success the name is that prefix, the value is Scalar of the units after
\* that `=`, and the location of the assignment and of the value word are
\* the location of the word.
C21_AsStated ==
  ReturnedTryFrom =>
    LET units == start.word.units
        eq == position_of_equal(units)
        prefix == IF eq = <<>> THEN <<>> ELSE SubSeq(units, 1, eq[1])
    IN /\ result.tag = "Ok" <=>
            /\ eq # <<>>
            /\ eq[1] > 0
            /\ \A k \in DOMAIN prefix : IsLiteralUnit(prefix[k])
            /\ is_name(LiteralChars(prefix))
       /\ result.tag = "Ok" =>
            /\ result.val.name = LiteralChars(prefix)
            /\ result.val.value.type = "Scalar"
            /\ result.val.value.word.units =
                 SubSeq(units, eq[1] + 2, Len(units))
            /\ result.val.value.word.location = start.word.location
            /\ result.val.location = start.word.location

\* C22: when Assign::try_from(word) fails, the Err value is the word it was
\* given, with the same units in the same order and the same location; and
\* it fails on a word with no unquoted literal `=`, with that `=` as the
\* first unit, or with a unit before that `=` that is not an unquoted
\* literal.
C22_WordIntact ==
  ReturnedTryFrom =>
    LET units == start.word.units
        eq == position_of_equal(units)
    IN /\ result.tag = "Err" =>
            /\ result.val.units = units
            /\ result.val.location = start.word.location
       /\ (\/ eq = <<>>
           \/ eq[1] = 0
           \/ \E k \in 1..eq[1] : ~IsLiteralUnit(units[k])) =>
            result.tag = "Err" /\ result.val = start.word

\* try_from has refused a word whose `=` follows a unit that is not literal
\* and is followed by more units.
C22_Witness ==
  /\ ReturnedTryFrom
  /\ result.tag = "Err"
  /\ start.word.units =
       <<Unquoted(Backslashed("b")), Unquoted(Literal("=")),
         Unquoted(Literal("a"))>>
  /\ result.val = start.word

\* word.unquote() has returned.
ReturnedUnquote == entry = "unquote" /\ result.tag # "None"

\* The unit is a quoting construct: a backslash escape, a single-quoted
\* part or a double-quoted part.
IsQuotingUnit(unit) ==
  \/ unit.type = "Unquoted" /\ unit.unit.type = "Backslashed"
  \/ unit.type \in {"SingleQuote", "DoubleQuote"}

\* C23 as stated: unquote on a word returns the text with the quoting
\* removed and a flag that is true if and only if the word contains a
\* quoting construct: a backslash escape, a single-quoted part or a
\* double-quoted part, also one that holds only literal characters.
C23_AsStated ==
  ReturnedUnquote =>
    /\ result.val[1] = Word_write_unquoted(start.word.units, 1, <<>>).w
    /\ result.val[2] =
         \E k \in DOMAIN start.word.units :
           IsQuotingUnit(start.word.units[k])

\* word.extend_if_literal(result) has returned.
ReturnedExtendIfLiteral == entry = "extend_if_literal" /\ result.tag # "None"

\* C24 as stated: extend_if_literal(result) returns Ok(result extended with
\* every character) if and only if every unit is literal; otherwise it
\* returns Err(result) with result not modified, also when non-literal units
\* come after literal ones.
C24_AsStated ==
  ReturnedExtendIfLiteral =>
    LET units == start.word.units
    IN /\ result.tag = "Ok" <=> \A k \in DOMAIN units : IsLiteralUnit(units[k])
       /\ result.tag = "Ok" => result.val = start.result \o LiteralChars(units)
       /\ result.tag = "Err" => result.val = start.result

(***************************************************************************)
(* src/src/syntax.rs: Display, and parsing what it writes                  *)
(***************************************************************************)

RECURSIVE format(_, _)
\* Itertools::format: the strings joined by sep.
format(strs, sep) ==
  IF strs = <<>> THEN <<>>
  ELSE IF Len(strs) = 1 THEN strs[1]
  ELSE strs[1] \o sep \o format(Tail(strs), sep)

\* impl Display for HereDoc, lines 444-454, for the operator `<<`.
HereDoc_fmt(doc) ==
  <<"<", "<">>
    \o (IF doc.delimiter # <<>> /\ doc.delimiter[1] = "-" THEN <<" ">>
        ELSE <<>>)
    \o doc.delimiter

\* impl Display for SimpleCommand, lines 545-552 (no assignments), with
\* impl Display for Redir and RedirBody, lines 467-473 and 512-518.
SimpleCommand_fmt(command, docs) ==
  format(command.words
           \o [k \in DOMAIN command.redirs |->
                 HereDoc_fmt(docs[command.redirs[k]])],
         <<" ">>)

RECURSIVE List_fmt(_, _, _)
\* impl Display for CompoundCommand, lines 572-581.
CompoundCommand_fmt(command, docs) ==
  (IF command.type = "While" THEN KwWhile ELSE KwUntil)
    \o <<" ">> \o List_fmt(command.condition, TRUE, docs)
    \o <<" ">> \o KwDo \o <<" ">> \o List_fmt(command.body, TRUE, docs)
    \o <<" ">> \o KwDone

\* impl Display for Command, AndOrList and Pipeline, lines 632-639, 707-713
\* and 653-659, for an and-or list of one pipeline of one command.
Command_fmt(command, docs) ==
  IF command.type = "Simple" THEN SimpleCommand_fmt(command, docs)
  ELSE CompoundCommand_fmt(command, docs)

\* Item::fmt with the terminator left out in the alternate form too.
Item_fmt_unterminated(item, alternate, docs) ==
  Command_fmt(item.and_or, docs)
    \o (IF item.async_flag # <<>> THEN <<"&">> ELSE <<>>)

\* impl Display for Item, lines 730-740.
Item_fmt(item, alternate, docs) ==
  Command_fmt(item.and_or, docs)
    \o (IF item.async_flag # <<>> THEN <<"&">>
        ELSE IF alternate THEN <<";">>
        ELSE <<>>)

\* impl Display for List, lines 754-768.
List_fmt(items, alternate, docs) ==
  IF items = <<>> THEN <<>>
  ELSE IF Len(items) = 1 THEN Item_fmt(items[1], alternate, docs)
  ELSE Item_fmt(items[1], TRUE, docs) \o <<" ">>
         \o List_fmt(Tail(items), alternate, docs)

RECURSIVE List_eq(_, _)
\* What derive(PartialEq) compares, lines 525, 556, 717 and 746: the list
\* without the positions of its parts, each here-document in its place.
Command_eq(command, docs) ==
  IF command.type = "Simple"
  THEN [type |-> "Simple", words |-> command.words,
        redirs |-> [k \in DOMAIN command.redirs |->
                      [delimiter |-> docs[command.redirs[k]].delimiter,
                       content |-> docs[command.redirs[k]].content,
                       filled |-> docs[command.redirs[k]].filled]]]
  ELSE [type |-> command.type,
        condition |-> List_eq(command.condition, docs),
        body |-> List_eq(command.body, docs)]

List_eq(items, docs) ==
  [k \in DOMAIN items |->
     [and_or |-> Command_eq(items[k].and_or, docs),
      is_async |-> items[k].async_flag # <<>>]]

\* The caller has kept a list it parsed and is parsing what the list
\* displayed as.
Redisplayed == "parsed" \in DOMAIN start

\* `list.to_string().parse()`: the caller of command_line displays the list
\* it was returned and hands the string to a new lexer and parser, keeping
\* the list.
parse_to_string ==
  /\ ReturnedCommandLine
  /\ ~Redisplayed
  /\ result.val[1] # <<>>
  /\ code' = List_fmt(result.val[1], FALSE, here_docs)
  /\ origin' = [i \in 1..Len(code') |-> {}]
  /\ index' = 0
  /\ token' = NoToken
  /\ here_docs' = <<>>
  /\ unread_here_docs' = <<>>
  /\ stack' = <<Frame("command_line", "start", <<>>, <<>>)>>
  /\ ret' = NoRet
  /\ result' = NoRet
  /\ start' = [parsed |-> List_eq(result.val[1], here_docs)]
  /\ UNCHANGED <<aliases, entry, system>>

\* The caller parses command lines without aliases.
DisplayInit ==
  /\ system = NoSystem
  /\ code \in Inputs
  /\ origin = [i \in 1..Len(code) |-> {}]
  /\ index = 0
  /\ token = NoToken
  /\ here_docs = <<>>
  /\ unread_here_docs = <<>>
  /\ stack = <<>>
  /\ ret = NoRet
  /\ result = NoRet
  /\ aliases = NoAliases
  /\ entry = "command_line"
  /\ start = NoToken

DisplayNext == Next \/ parse_to_string

DisplaySpec == DisplayInit /\ [][DisplayNext]_vars

RECURSIVE has_here_doc(_)
\* The list (as List_eq gives it) holds a here-document.
has_here_doc(items) ==
  \E k \in DOMAIN items :
    IF items[k].and_or.type = "Simple" THEN items[k].and_or.redirs # <<>>
    ELSE has_here_doc(items[k].and_or.condition)
           \/ has_here_doc(items[k].and_or.body)

\* The parse of the displayed list has returned the list.
RoundTrip ==
  /\ result.tag = "Ok"
  /\ result.val # <<>>
  /\ List_eq(result.val[1], here_docs) = start.parsed

\* A simple command of the one word w, not asynchronous.
OneWord(w) ==
  <<[and_or |-> [type |-> "Simple", words |-> <<w>>, redirs |-> <<>>],
     is_async |-> FALSE]>>

\* `while true; do :; done` is parsed to While{condition [true], body [:]}
\* and displayed as it was written.
WhileShortRoundTrip ==
  (ReturnedCommandLine /\ ~Redisplayed /\ code = InWhileShort) =>
    /\ List_eq(result.val[1], here_docs) =
         <<[and_or |-> [type |-> "While",
                        condition |-> OneWord(<<"t", "r", "u", "e">>),
                        body |-> OneWord(<<":">>)],
            is_async |-> FALSE]>>
    /\ List_fmt(result.val[1], FALSE, here_docs) = InWhileShort

MaxArgs == 2

I32Max == 2147483647

I32Min == (-2147483647) - 1

\* The values of the fields the built-in is called with.
FieldValues ==
  {<<"-", "n">>, <<"4", "2">>, <<"0">>, <<"x">>, <<"-", "1">>, <<"+", "7">>,
   <<>>, <<"2", "1", "4", "7", "4", "8", "3", "6", "4", "7">>,
   <<"2", "1", "4", "7", "4", "8", "3", "6", "4", "8">>}

RECURSIVE ArgLists(_)
\* The argument lists of at most n fields.
ArgLists(n) ==
  IF n = 0 THEN {<<>>}
  ELSE ArgLists(n - 1)
         \cup {Append(a, f) : a \in {b \in ArgLists(n - 1) : Len(b) = n - 1},
                              f \in FieldValues}

\* The values of `$?` the built-in is called with.
ExitStatuses == {0, 42}

\* ExitStatus::ERROR.
ExitStatus_ERROR == 2

RECURSIVE parse_digits(_, _, _, _)
\* i32::from_str on the digits from the k-th on: checked_mul(10) and then
\* checked_add (checked_sub after a `-`) of each digit; None on a character
\* that is not a digit and on overflow.
parse_digits(s, k, acc, negative) ==
  IF k > Len(s) THEN <<acc>>
  ELSE IF s[k] \notin Digits THEN <<>>
  ELSE IF negative
  THEN IF acc < -(I32Max \div 10)
          \/ acc * 10 < I32Min + DigitValue(s[k])
       THEN <<>>
       ELSE parse_digits(s, k + 1, acc * 10 - DigitValue(s[k]), negative)
  ELSE IF acc > I32Max \div 10
          \/ acc * 10 > I32Max - DigitValue(s[k])
       THEN <<>>
       ELSE parse_digits(s, k + 1, acc * 10 + DigitValue(s[k]), negative)

\* `field.value.parse()` of line 112 for ExitStatus(i32): i32::from_str,
\* an optional sign and one digit or more, as an Option.
parse(s) ==
  IF s = <<>> THEN <<>>
  ELSE IF s[1] \in {"+", "-"}
  THEN IF Len(s) = 1 THEN <<>> ELSE parse_digits(s, 2, 0, s[1] = "-")
  ELSE parse_digits(s, 1, 0, FALSE)

\* Line 110: `i.next_if(|field| field.value == "-n").is_some()`.
no_return(args) == args # <<>> /\ args[1] = <<"-", "n">>

\* Line 111: `i.next()` after line 110, an Option.
exit_status_field(args) ==
  LET rest == IF no_return(args) THEN Tail(args) ELSE args
  IN IF rest = <<>> THEN <<>> ELSE <<rest[1]>>

\* Result::new(exit_status): no divert.
Result_new(exit_status) == [exit_status |-> exit_status, divert |-> <<>>]

\* Line 116 with the operand left out.
no_return_result_from_env(env, exit_status) == Result_new(env.exit_status)

\* Line 116: `Result::new(exit_status.unwrap_or(env.exit_status))`.
no_return_result(env, exit_status) ==
  Result_new(IF exit_status # <<>> THEN exit_status[1] ELSE env.exit_status)

\* Lines 118-120 with the operand made the exit status of the result and
\* left out of the divert.
return_result_undiverted(env, exit_status) ==
  [exit_status |-> IF exit_status # <<>> THEN exit_status[1]
                   ELSE env.exit_status,
   divert |-> <<[type |-> "Return", exit_status |-> <<>>]>>]

\* Lines 118-120: Result::new(env.exit_status) with
\* set_divert(Break(Divert::Return(exit_status))).
return_result(env, exit_status) ==
  [exit_status |-> env.exit_status,
   divert |-> <<[type |-> "Return", exit_status |-> exit_status]>>]

\* builtin_body, lines 103-122: the Result and the environment after the
\* call, or the panic of `expect` at line 112.
builtin_body(env, args) ==
  LET field == exit_status_field(args)
      exit_status == IF field = <<>> THEN <<>> ELSE parse(field[1])
  IN IF field # <<>> /\ exit_status = <<>>
     THEN Rec("builtin_body", "Panic", <<>>)
     ELSE Rec("builtin_body", "Ok",
              [result |-> IF no_return(args)
                          THEN no_return_result(env, exit_status)
                          ELSE return_result(env, exit_status),
               env |-> env])

\* A call of the return built-in.
return_call ==
  /\ entry = "return"
  /\ result.tag = "None"
  /\ result' = builtin_body(start.env, start.args)
  /\ UNCHANGED <<code, origin, index, token, here_docs, unread_here_docs,
                 stack, ret, aliases, entry, start, system>>

\* The caller holds an environment and the arguments (in start).
ReturnInit ==
  /\ system = NoSystem
  /\ code = <<>>
  /\ origin = <<>>
  /\ index = 0
  /\ token = NoToken
  /\ here_docs = <<>>
  /\ unread_here_docs = <<>>
  /\ stack = <<>>
  /\ ret = NoRet
  /\ result = NoRet
  /\ aliases = NoAliases
  /\ entry = "return"
  /\ start \in {[env |-> [exit_status |-> s], args |-> a] :
                  s \in ExitStatuses, a \in ArgLists(MaxArgs)}

ReturnNext == return_call

ReturnSpec == ReturnInit /\ [][ReturnNext]_vars

\* The call of the return built-in is over.
ReturnedReturn == entry = "return" /\ result.tag # "None"

\* The operand is a non-negative decimal integer that is at most
\* 2147483647.
is_exit_status(s) ==
  /\ s # <<>>
  /\ \A k \in DOMAIN s : s[k] \in Digits
  /\ parse(s) # <<>>

C27_AsStated ==
  (ReturnedReturn /\ exit_status_field(start.args) # <<>>
     /\ ~is_exit_status(exit_status_field(start.args)[1])) =>
    /\ result.tag = "Ok"
    /\ result.val.result = Result_new(ExitStatus_ERROR)

\* C28: the result carries Break(Divert::Return(x)) if and only if the
\* first argument is not `-n`, x being Some(operand) when an operand is
\* given and None otherwise; with `-n` the result carries no divert; and
\* the environment is as it was.
C28_Divert ==
  (ReturnedReturn /\ result.tag = "Ok") =>
    LET field == exit_status_field(start.args)
    IN /\ result.val.result.divert # <<>> <=>
            (start.args = <<>> \/ start.args[1] # <<"-", "n">>)
       /\ result.val.result.divert # <<>> =>
            /\ result.val.result.divert[1].type = "Return"
            /\ result.val.result.divert[1].exit_status =
                 IF field = <<>> THEN <<>> ELSE parse(field[1])
       /\ result.val.env = start.env

\* `return 42` has been called and has returned Divert::Return(Some(42)).
C28_Witness ==
  /\ ReturnedReturn
  /\ result.tag = "Ok"
  /\ start.args = <<<<"4", "2">>>>
  /\ result.val.result.divert =
       <<[type |-> "Return", exit_status |-> <<42>>]>>

(***************************************************************************)
(* yash-builtin/src/read/input.rs                                          *)
(***************************************************************************)

\* The most bytes the standard input holds.
MaxBytes == 4

\* Bytes of the standard input: three ASCII characters, the first bytes of
\* a sequence of two, three and four bytes, a continuation byte and a byte
\* that no UTF-8 sequence holds.
AsciiBytes == {"a", "\\", NL}

LeadByte == "c2"

Lead3Byte == "e2"

Lead4Byte == "f0"

ContinuationByte == "a9"

InvalidByte == "ff"

Bytes ==
  AsciiBytes \cup {LeadByte, Lead3Byte, Lead4Byte, ContinuationByte, InvalidByte}

\* The character the bytes c2 a9 encode.
CopyrightSign == "(c)"

\* The character the bytes e2 a9 a9 encode.
U2A69 == "U+2A69"

\* The character the bytes f0 a9 a9 a9 encode.
U29A69 == "U+29A69"

RECURSIVE ByteSequences(_)
\* The contents of the standard input of at most n bytes.
ByteSequences(n) ==
  IF n = 0 THEN {<<>>}
  ELSE ByteSequences(n - 1)
         \cup {Append(s, b) : s \in {t \in ByteSequences(n - 1) : Len(t) = n - 1},
                              b \in Bytes}

\* quoted, lines 58-65.
quoted(value) ==
  [value |-> value, origin |-> "SoftExpansion", is_quoted |-> TRUE,
   is_quoting |-> FALSE]

\* quoting, lines 67-74.
quoting(value) ==
  [value |-> value, origin |-> "SoftExpansion", is_quoted |-> FALSE,
   is_quoting |-> TRUE]

\* plain, lines 76-83.
plain(value) ==
  [value |-> value, origin |-> "SoftExpansion", is_quoted |-> FALSE,
   is_quoting |-> FALSE]

\* std::str::from_utf8 on the buffer whose first byte is b, line 155: the
\* number of bytes of the sequence b starts, 0 if b starts none.
utf8_char_width(b) ==
  IF b \in AsciiBytes THEN 1
  ELSE IF b = LeadByte THEN 2
  ELSE IF b = Lead3Byte THEN 3
  ELSE IF b = Lead4Byte THEN 4
  ELSE 0

\* Lines 156-162: the character of a complete sequence that starts with b.
from_utf8(b) ==
  IF b = LeadByte THEN CopyrightSign
  ELSE IF b = Lead3Byte THEN U2A69
  ELSE IF b = Lead4Byte THEN U29A69
  ELSE b

\* Lines 143-151 with every end of input taken for the end of the text.
end_of_input_lenient(i, len) == [tag |-> "Ok", c |-> <<>>, index |-> i]

\* Lines 143-151: read_async returned no byte with len bytes in the buffer.
end_of_input(i, len) ==
  IF len = 0 THEN [tag |-> "Ok", c |-> <<>>, index |-> i]
  ELSE [tag |-> "Err", c |-> <<>>, index |-> i]

RECURSIVE read_char_loop(_, _, _)
\* The loop of read_char, lines 138-173, with len bytes in the buffer and
\* the standard input at offset i.
read_char_loop(bytes, i, len) ==
  IF i >= Len(bytes) THEN end_of_input(i, len)
  ELSE IF len = 0 /\ utf8_char_width(bytes[i + 1]) = 0
  THEN [tag |-> "Err", c |-> <<>>, index |-> i + 1]
  ELSE IF len > 0 /\ bytes[i + 1] # ContinuationByte
  THEN [tag |-> "Err", c |-> <<>>, index |-> i + 1]
  ELSE IF len + 1 = utf8_char_width(bytes[i + 1 - len])
  THEN [tag |-> "Ok", c |-> <<from_utf8(bytes[i + 1 - len])>>, index |-> i + 1]
  ELSE read_char_loop(bytes, i + 1, len + 1)

\* read_char, lines 134-174, with the standard input at offset i: the
\* Option of a character or the error, and the offset after the bytes read.
read_char(bytes, i) == read_char_loop(bytes, i, 0)

\* Line 104 without the arm of the newline.
is_line_end_at_end_of_input(c) == c = <<>>

\* Line 104: `None | Some('\n') => break`.
is_line_end(c) == c = <<>> \/ c = <<NL>>

\* Line 109 with the comparison failing for every character.
is_line_continuation_never(c) == FALSE

\* Line 109: `c == Some('\n')`.
is_line_continuation(c) == c = <<NL>>

RECURSIVE read_loop(_, _, _, _)
\* read, the loop of lines 101-124 from offset i on, with the vector built
\* so far.
read_loop(bytes, i, is_raw, line) ==
  LET first == read_char(bytes, i)
      c == read_char(bytes, first.index)
  IN IF first.tag = "Err"
     THEN [tag |-> "Err", val |-> "EILSEQ", index |-> first.index]
     ELSE IF is_line_end(first.c)
     THEN [tag |-> "Ok", val |-> line, index |-> first.index]
     ELSE IF first.c = <<"\\">> /\ ~is_raw
     THEN IF c.tag = "Err"
          THEN [tag |-> "Err", val |-> "EILSEQ", index |-> c.index]
          ELSE IF is_line_continuation(c.c)
          THEN read_loop(bytes, c.index, is_raw, line)
          ELSE IF c.c = <<>>
          THEN [tag |-> "Ok", val |-> Append(line, quoting("\\")),
                index |-> c.index]
          ELSE read_loop(bytes, c.index, is_raw,
                         line \o <<quoting("\\"), quoted(c.c[1])>>)
     ELSE read_loop(bytes, first.index, is_raw,
                    Append(line, plain(first.c[1])))

\* read, lines 98-127.
read(bytes, i, is_raw) == read_loop(bytes, i, is_raw, <<>>)

\* A call of read(env, is_raw): the standard input (code) is read from its
\* offset (index) on; the caller keeps is_raw and the offset it called at.
read_call ==
  /\ entry = "read"
  /\ \E is_raw \in BOOLEAN :
       /\ result' = Rec("read", read(code, index, is_raw).tag,
                        read(code, index, is_raw).val)
       /\ index' = read(code, index, is_raw).index
       /\ start' = [is_raw |-> is_raw, index |-> index]
  /\ UNCHANGED <<code, origin, token, here_docs, unread_here_docs, stack,
                 ret, aliases, entry, system>>

\* The standard input is set and nothing is read yet.
ReadInit ==
  /\ system = NoSystem
  /\ code \in ByteSequences(MaxBytes)
  /\ origin = <<>>
  /\ index = 0
  /\ token = NoToken
  /\ here_docs = <<>>
  /\ unread_here_docs = <<>>
  /\ stack = <<>>
  /\ ret = NoRet
  /\ result = NoRet
  /\ aliases = NoAliases
  /\ entry = "read"
  /\ start = NoToken

ReadNext == read_call

ReadSpec == ReadInit /\ [][ReadNext]_vars

\* read has been called and has returned.
ReturnedRead == entry = "read" /\ result.tag # "None"

\* The bytes the last call of read consumed.
Consumed == SubSeq(code, start.index + 1, index)

\* The UTF-8 encodings of the characters of the model.
Encodings ==
  {<<b>> : b \in AsciiBytes}
    \cup {<<LeadByte, ContinuationByte>>,
          <<Lead3Byte, ContinuationByte, ContinuationByte>>,
          <<Lead4Byte, ContinuationByte, ContinuationByte, ContinuationByte>>}

\* bytes start with the encoding e.
StartsWith(bytes, e) ==
  Len(bytes) >= Len(e) /\ SubSeq(bytes, 1, Len(e)) = e

RECURSIVE is_utf8(_)
\* The bytes are valid UTF-8: a concatenation of encodings.
is_utf8(bytes) ==
  \/ bytes = <<>>
  \/ \E e \in Encodings :
       StartsWith(bytes, e) /\ is_utf8(SubSeq(bytes, Len(e) + 1, Len(bytes)))

\* The character an encoding stands for.
decoded(e) ==
  CASE Len(e) = 1 -> e[1]
    [] Len(e) = 2 -> CopyrightSign
    [] Len(e) = 3 -> U2A69
    [] OTHER -> U29A69

RECURSIVE chars(_)
\* The characters of bytes that are valid UTF-8.
chars(bytes) ==
  IF bytes = <<>> THEN <<>>
  ELSE LET e == CHOOSE f \in Encodings : StartsWith(bytes, f)
       IN  <<decoded(e)>> \o chars(SubSeq(bytes, Len(e) + 1, Len(bytes)))

\* The values of the characters of a line.
values(line) == [k \in DOMAIN line |-> line[k].value]

\* The line a call returned ended at a newline.
EndedAtNewline == Consumed # <<>> /\ Consumed[Len(Consumed)] = NL

\* The bytes consumed without the newline that ended the line.
ConsumedLine ==
  IF EndedAtNewline THEN SubSeq(Consumed, 1, Len(Consumed) - 1) ELSE Consumed

\* C29: read returns the characters of one input line without its
\* terminating newline and consumes the standard input through that newline
\* and no further, so that the next call returns the next line; a final
\* line without a newline is returned whole; and a call at the end of the
\* input returns an empty vector.  (A line without backslashes, or read
\* with is_raw; the other lines are the matter of C30.)
C29_OneLine ==
  /\ (ReturnedRead /\ is_utf8(SubSeq(code, start.index + 1, Len(code)))) =>
       result.tag = "Ok"
  /\ (ReturnedRead /\ result.tag = "Ok") =>
       /\ start.index = Len(code) => index = Len(code) /\ result.val = <<>>
       /\ ~EndedAtNewline => index = Len(code)
       /\ (start.is_raw \/ \A k \in DOMAIN Consumed : Consumed[k] # "\\") =>
            /\ \A k \in DOMAIN ConsumedLine : ConsumedLine[k] # NL
            /\ values(result.val) = chars(ConsumedLine)
            /\ \A k \in DOMAIN result.val :
                 result.val[k] = plain(result.val[k].value)

\* The second call of read on `a`, newline, `a`, newline has returned the
\* second line and has left the standard input at its end.
C29_Witness ==
  /\ ReturnedRead
  /\ result.tag = "Ok"
  /\ code = <<"a", NL, "a", NL>>
  /\ start.index = 2
  /\ index = 4
  /\ result.val = <<plain("a")>>

RECURSIVE Unescaped(_, _)
\* The line that begins at the k-th character of s with its backslashes
\* processed: a backslash-newline pair is removed, another backslash is a
\* quoting character and the character after it a quoted one, and the line
\* ends at the first newline that is left.
Unescaped(s, k) ==
  IF k > Len(s) \/ s[k] = NL THEN <<>>
  ELSE IF s[k] # "\\" THEN <<plain(s[k])>> \o Unescaped(s, k + 1)
  ELSE IF k = Len(s) THEN <<quoting("\\")>>
  ELSE IF s[k + 1] = NL THEN Unescaped(s, k + 2)
  ELSE <<quoting("\\"), quoted(s[k + 1])>> \o Unescaped(s, k + 2)

\* The offset after the first newline at or after offset i, or the end.
after_first_newline(s, i) ==
  LET found == {k \in (i + 1)..Len(s) : s[k] = NL}
  IN IF found = {} THEN Len(s)
     ELSE CHOOSE k \in found : \A j \in found : k <= j

\* C30: read with is_raw = false removes every backslash-newline pair and
\* reads on, and turns any other backslash followed by a character c into a
\* quoting backslash followed by c marked quoted (a backslash at the end of
\* the input gives the quoting backslash only); with is_raw = true every
\* backslash is a plain character and the line ends at the first newline,
\* also after a backslash.
C30_Backslash ==
  (ReturnedRead /\ result.tag = "Ok"
     /\ \A k \in (start.index + 1)..Len(code) : code[k] \in AsciiBytes) =>
    IF start.is_raw
    THEN /\ index = after_first_newline(code, start.index)
         /\ result.val = [k \in DOMAIN ConsumedLine |-> plain(ConsumedLine[k])]
    ELSE result.val = Unescaped(code, start.index + 1)

\* read with is_raw = false has removed a backslash-newline pair and has
\* returned the escaped character after it.
C30_Witness ==
  /\ ReturnedRead
  /\ result.tag = "Ok"
  /\ ~start.is_raw
  /\ start.index = 0
  /\ code = <<"\\", NL, "\\", "a">>
  /\ result.val = <<quoting("\\"), quoted("a")>>

\* The first line of the standard input at the offset where the last call
\* of read began, with its newline if it has one.
FirstLine ==
  SubSeq(code, start.index + 1, after_first_newline(code, start.index))

\* C31: read fails with Errno::EILSEQ, returning no characters, when the
\* line it reads holds a byte sequence that is not valid UTF-8 or the input
\* ends in the middle of a multi-byte character, and only then; every valid
\* sequence of one to four bytes is returned as exactly one character.
C31_Eilseq ==
  ReturnedRead =>
    /\ ~is_utf8(FirstLine) => result.tag = "Err"
    /\ result.tag = "Err" => result.val = "EILSEQ" /\ ~is_utf8(Consumed)
    /\ result.tag = "Ok" =>
         /\ is_utf8(Consumed)
         /\ start.is_raw => values(result.val) = chars(ConsumedLine)
         /\ start.is_raw => Len(result.val) = Len(chars(ConsumedLine))

\* read has met the end of the input after the first two bytes of a
\* sequence of three and has returned the error and not the `a` before it.
C31_Witness ==
  /\ ReturnedRead
  /\ code = <<"a", Lead3Byte, ContinuationByte>>
  /\ start.index = 0
  /\ index = 3
  /\ result.tag = "Err"
  /\ result.val = "EILSEQ"

\* read has returned the character of a sequence of four bytes.
C31_FourBytes ==
  /\ ReturnedRead
  /\ code = <<Lead4Byte, ContinuationByte, ContinuationByte, ContinuationByte>>
  /\ result.tag = "Ok"
  /\ result.val = <<plain(U29A69)>>

(***************************************************************************)
(* yash-env/src/system/select.rs                                           *)
(***************************************************************************)

\* The most FdAwaiters the caller registers.
MaxAwaiters == 2

\* The most SignalStatuses the caller asks for.
MaxStatuses == 2

\* The wakers (Rc<RefCell<Option<Waker>>>) the caller owns.
MaxWakers == 2

Signals == {"SIGCHLD", "SIGUSR1"}

Handlings == {"Default", "Ignore", "Catch"}

Fds == {"fd3", "fd4"}

\* The errors of the underlying select.
Errnos == {"EBADF", "EINTR", "EINVAL"}

\* The uses of the SelectSystem that are followed: the configuration of the
\* signals, and select with awaiters in one of the two registries, AsyncIo
\* (line 52) and AsyncSignal (line 56).
SelectEntryPoints == {"set_signal_handling", "AsyncIo", "AsyncSignal"}

\* The rest of the state is not used by SelectSystem.
ParserSame ==
  UNCHANGED <<code, origin, index, token, here_docs, unread_here_docs,
              aliases, entry>>

\* The caller has changed what it awaits: the last call of select and its
\* result are not looked at any more.
Registered ==
  /\ result' = NoRet
  /\ start' = NoToken
  /\ UNCHANGED <<stack, ret>>

\* System::sigmask: the signal is added to or removed from the blocking mask
\* of the process.
System_sigmask(sys, op, signal) ==
  [sys EXCEPT !.mask = IF op = "Add" THEN @ \cup {signal} ELSE @ \ {signal}]

\* System::sigaction: the disposition of the signal is replaced.
System_sigaction(sys, signal, handling) ==
  [sys EXCEPT !.dispositions[signal] = handling]

\* sigmask, lines 90-109, when the system call succeeds (ok) and when it
\* fails: the first success initialises wait_mask from the mask the system
\* call reported, and every success takes the signal out of wait_mask.
sigmask(sys, op, signal, ok) ==
  IF ~ok THEN sys
  ELSE IF sys.wait_mask = <<>>
  THEN [System_sigmask(sys, op, signal) EXCEPT
          !.wait_mask = <<sys.mask \ {signal}>>]
  ELSE [System_sigmask(sys, op, signal) EXCEPT
          !.wait_mask = <<sys.wait_mask[1] \ {signal}>>]

\* self.system.sigaction(signal, handling), lines 125 and 131.
sigaction(sys, signal, handling, ok) ==
  IF ok THEN System_sigaction(sys, signal, handling) ELSE sys

\* Lines 126 and 130: the operation on the blocking mask.
sigmask_op(handling) == IF handling = "Catch" THEN "Add" ELSE "Remove"

\* Lines 123-133 with the handler installed first for every handling.
first_step_sigaction(handling) == "sigaction"

\* Lines 123-133: the system call set_signal_handling makes first.
first_step(handling) ==
  IF handling = "Catch" THEN "sigmask" ELSE "sigaction"

\* Lines 123-133: the system call set_signal_handling makes second.
second_step(handling) ==
  IF first_step(handling) = "sigmask" THEN "sigaction" ELSE "sigmask"

\* One of the two system calls of set_signal_handling.
system_call(sys, name, signal, handling, ok) ==
  IF name = "sigmask" THEN sigmask(sys, sigmask_op(handling), signal, ok)
  ELSE sigaction(sys, signal, handling, ok)

\* What a system call of set_signal_handling returns.
system_call_result(sys, name, signal, ok) ==
  IF ~ok THEN Rec(name, "Err", "EINVAL")
  ELSE IF name = "sigmask" THEN Rec(name, "Ok", <<>>)
  ELSE Rec(name, "Ok", sys.dispositions[signal])

\* set_signal_handling, lines 114-134, up to the return of its first system
\* call: an error returns at once (the `?` of lines 125 and 130).
set_signal_handling_first ==
  /\ entry = "set_signal_handling"
  /\ stack = <<>>
  /\ \E signal \in Signals, handling \in Handlings, ok \in BOOLEAN :
       /\ system' = system_call(system, first_step(handling), signal,
                                handling, ok)
       /\ ret' = system_call_result(system, first_step(handling), signal, ok)
       /\ start' = [signal |-> signal, handling |-> handling,
                    system |-> system]
       /\ stack' = IF ok
                   THEN <<[signal |-> signal, handling |-> handling,
                           old_handling |-> system.dispositions[signal]]>>
                   ELSE <<>>
       /\ result' = IF ok THEN NoRet
                    ELSE Rec("set_signal_handling", "Err", "EINVAL")
  /\ ParserSame

\* set_signal_handling, lines 114-134, from the return of its first system
\* call on: the second system call and the return.
set_signal_handling_second ==
  /\ entry = "set_signal_handling"
  /\ stack # <<>>
  /\ \E ok \in BOOLEAN :
       /\ system' = system_call(system, second_step(stack[1].handling),
                                stack[1].signal, stack[1].handling, ok)
       /\ ret' = system_call_result(system, second_step(stack[1].handling),
                                    stack[1].signal, ok)
       /\ result' = IF ok
                    THEN Rec("set_signal_handling", "Ok",
                             stack[1].old_handling)
                    ELSE Rec("set_signal_handling", "Err", "EINVAL")
  /\ stack' = <<>>
  /\ UNCHANGED start
  /\ ParserSame

\* Drop for FdAwaiter, lines 239-247: the waker is taken and woken if the
\* caller still holds it.
FdAwaiter_drop(wakers, awaiter) ==
  IF wakers[awaiter.waker].alive /\ wakers[awaiter.waker].waker
  THEN [wakers EXCEPT ![awaiter.waker].waker = FALSE,
                      ![awaiter.waker].woken = @ + 1]
  ELSE wakers

RECURSIVE drop_all(_, _)
\* The awaiters a Vec lets go of are dropped in order.
drop_all(wakers, awaiters) ==
  IF awaiters = <<>> THEN wakers
  ELSE drop_all(FdAwaiter_drop(wakers, Head(awaiters)), Tail(awaiters))

\* AsyncIo::readers and AsyncIo::writers, lines 259-279.
fds(awaiters) == {awaiters[k].fd : k \in DOMAIN awaiters}

\* Vec::retain of lines 296-297: the awaiters that stay.
not_ready(awaiters, ready) ==
  LET stays(awaiter) == awaiter.fd \notin ready
  IN  SelectSeq(awaiters, stays)

\* Vec::retain of lines 296-297: the awaiters that go.
are_ready(awaiters, ready) ==
  LET goes(awaiter) == awaiter.fd \in ready
  IN  SelectSeq(awaiters, goes)

\* AsyncIo::wake, lines 295-298.
AsyncIo_wake(sys, readers, writers) ==
  [sys EXCEPT
     !.readers = not_ready(@, readers),
     !.writers = not_ready(@, writers),
     !.wakers = drop_all(drop_all(@, are_ready(sys.readers, readers)),
                         are_ready(sys.writers, writers))]

\* AsyncIo::wake_all without lines 302-303.
AsyncIo_keep_all(sys) == sys

\* AsyncIo::wake_all, lines 301-304.
AsyncIo_wake_all(sys) ==
  [sys EXCEPT
     !.readers = <<>>,
     !.writers = <<>>,
     !.wakers = drop_all(drop_all(@, sys.readers), sys.writers)]

\* Line 308: the awaiters whose waker the caller still holds.
is_alive(sys, awaiters) ==
  LET alive(awaiter) == sys.wakers[awaiter.waker].alive
  IN  SelectSeq(awaiters, alive)

\* AsyncIo::gc, lines 307-311.
AsyncIo_gc(sys) ==
  [sys EXCEPT !.readers = is_alive(sys, @), !.writers = is_alive(sys, @)]

\* AsyncSignal::gc, lines 422-424.
AsyncSignal_gc(sys) ==
  LET alive(k) == sys.statuses[k].alive
  IN  [sys EXCEPT !.awaiters = SelectSeq(@, alive)]

\* Line 448 with the awaiters left in the registry.
not_drained(awaiters) == awaiters

\* Line 448: `self.awaiters.drain(..)` leaves no awaiter.
drained(awaiters) == <<>>

\* Lines 449-458: the status of one awaiter becomes Caught and its waker,
\* if it has one, is woken.
SignalStatus_caught(status, signals) ==
  IF ~status.alive THEN status
  ELSE [alive |-> TRUE, tag |-> "Caught", waker |-> FALSE,
        signals |-> signals,
        woken |-> IF status.tag = "Expected" /\ status.waker
                  THEN status.woken + 1 ELSE status.woken]

\* AsyncSignal::wake, lines 447-460.
AsyncSignal_wake(sys, signals) ==
  [sys EXCEPT
     !.awaiters = drained(@),
     !.statuses = [k \in DOMAIN @ |->
                     IF \E j \in DOMAIN sys.awaiters : sys.awaiters[j] = k
                     THEN SignalStatus_caught(@[k], signals)
                     ELSE @[k]]]

\* wake_on_signals, lines 171-178, with the signals caught_signals reports.
wake_on_signals(sys, signals) ==
  IF signals = {} THEN AsyncSignal_gc(sys) ELSE AsyncSignal_wake(sys, signals)

\* What the select of the underlying system may return for the file
\* descriptors it is given: the ready ones, or an error.
InnerResults(sys) ==
  {[tag |-> "Ok", readers |-> r, writers |-> w, errno |-> "None"] :
     r \in SUBSET fds(sys.readers), w \in SUBSET fds(sys.writers)}
    \cup {[tag |-> "Err", readers |-> {}, writers |-> {}, errno |-> e] :
            e \in Errnos}

\* The match of lines 200-213: the SelectSystem after it.
select_match(sys, inner) ==
  IF inner.tag = "Ok" THEN AsyncIo_wake(sys, inner.readers, inner.writers)
  ELSE IF inner.errno = "EBADF" THEN AsyncIo_wake_all(sys)
  ELSE sys

\* The match of lines 200-213: final_result.
final_result(inner) ==
  IF inner.tag = "Ok" \/ inner.errno = "EINTR" THEN Rec("select", "Ok", <<>>)
  ELSE Rec("select", "Err", inner.errno)

\* SelectSystem::select, lines 183-218, with the result of the underlying
\* select and the signals caught.  The caller sets no timeout, so
\* wake_timeouts (line 215) finds none to wake.
select(sys, inner, signals) ==
  wake_on_signals(AsyncIo_gc(select_match(sys, inner)), signals)

\* The caller calls select.
select_call ==
  /\ entry \in {"AsyncIo", "AsyncSignal"}
  /\ \E inner \in InnerResults(system),
        signals \in SUBSET {s \in Signals : system.dispositions[s] = "Catch"} :
       /\ system' = select(system, inner, signals)
       /\ result' = final_result(inner)
       /\ start' = [inner |-> inner, signals |-> signals, system |-> system]
  /\ UNCHANGED <<stack, ret>>
  /\ ParserSame

\* add_reader, lines 137-139, and wait_for_reading, lines 282-284.
add_reader ==
  /\ entry = "AsyncIo"
  /\ Len(system.readers) + Len(system.writers) < MaxAwaiters
  /\ \E fd \in Fds, waker \in 1..MaxWakers :
       system' = [system EXCEPT
                    !.readers = Append(@, [fd |-> fd, waker |-> waker])]
  /\ Registered
  /\ ParserSame

\* add_writer, lines 142-144, and wait_for_writing, lines 287-289.
add_writer ==
  /\ entry = "AsyncIo"
  /\ Len(system.readers) + Len(system.writers) < MaxAwaiters
  /\ \E fd \in Fds, waker \in 1..MaxWakers :
       system' = [system EXCEPT
                    !.writers = Append(@, [fd |-> fd, waker |-> waker])]
  /\ Registered
  /\ ParserSame

\* The caller drops a waker it owns: the Weak of its awaiters is defunct.
drop_waker ==
  /\ entry = "AsyncIo"
  /\ \E waker \in 1..MaxWakers :
       /\ system.wakers[waker].alive
       /\ system' = [system EXCEPT !.wakers[waker].alive = FALSE]
  /\ Registered
  /\ ParserSame

\* add_signal_waker, lines 159-161, and wait_for_signals, lines 434-438.
add_signal_waker ==
  /\ entry = "AsyncSignal"
  /\ Len(system.statuses) < MaxStatuses
  /\ system' = [system EXCEPT
                  !.statuses = Append(@, [alive |-> TRUE, tag |-> "Expected",
                                          waker |-> FALSE, signals |-> {},
                                          woken |-> 0]),
                  !.awaiters = Append(@, Len(system.statuses) + 1)]
  /\ Registered
  /\ ParserSame

\* The caller sets the waker of a status that is Expected (doc of
\* add_signal_waker, lines 151-158).
set_waker ==
  /\ entry = "AsyncSignal"
  /\ \E k \in DOMAIN system.statuses :
       /\ system.statuses[k].alive
       /\ system.statuses[k].tag = "Expected"
       /\ ~system.statuses[k].waker
       /\ system' = [system EXCEPT !.statuses[k].waker = TRUE]
  /\ Registered
  /\ ParserSame

\* The caller drops a status it was handed.
drop_status ==
  /\ entry = "AsyncSignal"
  /\ \E k \in DOMAIN system.statuses :
       /\ system.statuses[k].alive
       /\ system' = [system EXCEPT !.statuses[k].alive = FALSE]
  /\ Registered
  /\ ParserSame

\* SelectSystem::new, lines 79-87, in a process that inherited the mask
\* parent_mask and whose signals have the disposition handling.
SelectSystem_new(parent_mask, handling) ==
  [mask |-> parent_mask,
   parent_mask |-> parent_mask,
   dispositions |-> [s \in Signals |-> handling],
   wait_mask |-> <<>>,
   readers |-> <<>>,
   writers |-> <<>>,
   wakers |-> [w \in 1..MaxWakers |->
                 [alive |-> TRUE, waker |-> TRUE, woken |-> 0]],
   awaiters |-> <<>>,
   statuses |-> <<>>]

\* Lines 129-132 when both system calls succeed.
catch(sys, signal) ==
  sigaction(sigmask(sys, "Add", signal, TRUE), signal, "Catch", TRUE)

\* A caller that configures the signals starts in a new process with any
\* inherited mask; a caller that awaits signals has set every signal to
\* Catch; a caller that awaits file descriptors catches no signal.
SelectInit ==
  /\ entry \in SelectEntryPoints
  /\ IF entry = "set_signal_handling"
     THEN system \in {SelectSystem_new(parent_mask, "Default") :
                        parent_mask \in SUBSET Signals}
     ELSE IF entry = "AsyncIo"
     THEN system = SelectSystem_new({}, "Default")
     ELSE system = catch(catch(SelectSystem_new({}, "Default"), "SIGCHLD"),
                         "SIGUSR1")
  /\ code = <<>>
  /\ origin = <<>>
  /\ index = 0
  /\ token = NoToken
  /\ here_docs = <<>>
  /\ unread_here_docs = <<>>
  /\ stack = <<>>
  /\ ret = NoRet
  /\ result = NoRet
  /\ aliases = NoAliases
  /\ start = NoToken

SelectNext ==
  \/ set_signal_handling_first
  \/ set_signal_handling_second
  \/ select_call
  \/ add_reader
  \/ add_writer
  \/ drop_waker
  \/ add_signal_waker
  \/ set_waker
  \/ drop_status

SelectSpec == SelectInit /\ [][SelectNext]_vars

\* set_signal_handling has been called and has returned.
ReturnedSetSignalHandling ==
  entry = "set_signal_handling" /\ stack = <<>>
    /\ result.from = "set_signal_handling"

\* set_signal_handling is between its two system calls.
BetweenSystemCalls == entry = "set_signal_handling" /\ stack # <<>>

\* C32: set_signal_handling orders its two system calls so that a signal
\* whose disposition is Catch is blocked in every state, the one between the
\* two calls included: for Catch the signal is in the blocking mask before
\* the handler is installed, for Default and Ignore the handler is replaced
\* before the signal leaves the blocking mask, and if the first call fails
\* the second is not made and the error is returned.
C32_Ordered ==
  /\ entry = "set_signal_handling" =>
       \A s \in Signals :
         system.dispositions[s] = "Catch" => s \in system.mask
  /\ BetweenSystemCalls =>
       IF start.handling = "Catch"
       THEN /\ ret.from = "sigmask"
            /\ start.signal \in system.mask
            /\ system.dispositions = start.system.dispositions
       ELSE /\ ret.from = "sigaction"
            /\ system.dispositions[start.signal] = start.handling
            /\ system.mask = start.system.mask
            /\ system.wait_mask = start.system.wait_mask
  /\ (ReturnedSetSignalHandling /\ ret.tag = "Err"
        /\ ret.from = (IF start.handling = "Catch" THEN "sigmask"
                       ELSE "sigaction")) =>
       /\ result.tag = "Err"
       /\ result.val = ret.val
       /\ system = start.system
  /\ (ReturnedSetSignalHandling /\ result.tag = "Ok") =>
       /\ result.val = start.system.dispositions[start.signal]
       /\ system.dispositions[start.signal] = start.handling
       /\ (start.signal \in system.mask) = (start.handling = "Catch")

\* set_signal_handling is between the two calls that set SIGCHLD to Catch,
\* in a process that did not block the signal: the signal is blocked and its
\* handler is not installed yet.
C32_Witness ==
  /\ BetweenSystemCalls
  /\ start.signal = "SIGCHLD"
  /\ start.handling = "Catch"
  /\ "SIGCHLD" \notin start.system.mask
  /\ "SIGCHLD" \in system.mask
  /\ system.dispositions["SIGCHLD"] = "Default"

\* The first system call of set_signal_handling has failed: the error is
\* returned and nothing has changed.
C32_FirstFails ==
  /\ ReturnedSetSignalHandling
  /\ start.handling = "Ignore"
  /\ ret = Rec("sigaction", "Err", "EINVAL")
  /\ result = Rec("set_signal_handling", "Err", "EINVAL")
  /\ system = start.system

\* The signals the shell wants to catch.
Caught == {s \in Signals : system.dispositions[s] = "Catch"}

\* C34: after any sequence of set_signal_handling calls, wait_mask (once
\* initialised by the first call) equals the signal mask inherited from the
\* parent shell minus exactly the signals the shell currently wants to catch,
\* so that a signal of the inherited mask that is set to Default or Ignore,
\* or to Catch and later back to Default, is in wait_mask again.
C34_AsStated ==
  (ReturnedSetSignalHandling /\ result.tag = "Ok"
     /\ system.wait_mask # <<>>) =>
    system.wait_mask[1] = system.parent_mask \ Caught

\* What sigmask does instead (lines 99 and 105): the signal of every call
\* that succeeds is out of wait_mask, whatever the handling, and wait_mask
\* holds no signal that the inherited mask did not hold.
C34_Retained ==
  (ReturnedSetSignalHandling /\ result.tag = "Ok") =>
    /\ system.wait_mask # <<>>
    /\ start.signal \notin system.wait_mask[1]
    /\ system.wait_mask[1] \subseteq system.parent_mask \ Caught

\* select has been called and has returned.
ReturnedSelect == result.from = "select"

\* The statuses that were in the registry of AsyncSignal when the last call
\* of select began.
Awaited == {start.system.awaiters[j] : j \in DOMAIN start.system.awaiters}

\* C33: when select observes a non-empty set of caught signals, every
\* still-alive SignalStatus handed out by add_signal_waker and not yet
\* delivered becomes Caught(those signals), its waker (if one was set) is
\* woken once, and all awaiters are removed from the registry, so that a
\* later signal does not overwrite a delivered status; when no signal was
\* caught every pending status stays Expected.
C33_Delivered ==
  (ReturnedSelect /\ entry = "AsyncSignal") =>
    /\ DOMAIN system.statuses = DOMAIN start.system.statuses
    /\ \A k \in DOMAIN system.statuses :
         LET old == start.system.statuses[k]
             new == system.statuses[k]
         IN  IF start.signals # {} /\ k \in Awaited /\ old.alive
             THEN /\ old.tag = "Expected"
                  /\ new.tag = "Caught"
                  /\ new.signals = start.signals
                  /\ new.woken = old.woken + (IF old.waker THEN 1 ELSE 0)
                  /\ new.woken <= 1
             ELSE new = old
    /\ start.signals # {} => system.awaiters = <<>>
    /\ start.signals = {} =>
         \A k \in DOMAIN system.statuses :
           (k \in Awaited /\ system.statuses[k].alive) =>
             /\ system.statuses[k].tag = "Expected"
             /\ \E j \in DOMAIN system.awaiters : system.awaiters[j] = k

\* select has delivered SIGUSR1 to the second status, whose waker was set,
\* and has left the first status with the SIGCHLD an earlier select
\* delivered to it.
C33_Witness ==
  /\ ReturnedSelect
  /\ entry = "AsyncSignal"
  /\ start.signals = {"SIGUSR1"}
  /\ Len(system.statuses) = 2
  /\ system.statuses[1].tag = "Caught"
  /\ system.statuses[1].signals = {"SIGCHLD"}
  /\ start.system.statuses[2].tag = "Expected"
  /\ start.system.statuses[2].waker
  /\ system.statuses[2].tag = "Caught"
  /\ system.statuses[2].signals = {"SIGUSR1"}
  /\ system.statuses[2].woken = 1
  /\ system.awaiters = <<>>

\* The wakers of the awaiters that were registered for reading or writing
\* when the last call of select began.
RegisteredWakers ==
  {start.system.readers[k].waker : k \in DOMAIN start.system.readers}
    \cup {start.system.writers[k].waker : k \in DOMAIN start.system.writers}

\* No waker has been woken by the last call of select.
NoneWoken ==
  \A w \in DOMAIN system.wakers :
    system.wakers[w] = start.system.wakers[w]

\* C35: SelectSystem::select maps the errors of the underlying select as
\* follows: EBADF wakes and removes every registered reader and writer and
\* returns Err(EBADF); EINTR returns Ok(()) and wakes no reader or writer;
\* any other error is returned unchanged and wakes no reader or writer.
C35_Errors ==
  (ReturnedSelect /\ entry = "AsyncIo" /\ start.inner.tag = "Err") =>
    IF start.inner.errno = "EBADF"
    THEN /\ result = Rec("select", "Err", "EBADF")
         /\ system.readers = <<>>
         /\ system.writers = <<>>
         /\ \A w \in DOMAIN system.wakers :
              LET old == start.system.wakers[w]
              IN  IF w \in RegisteredWakers /\ old.alive /\ old.waker
                  THEN system.wakers[w] =
                         [alive |-> TRUE, waker |-> FALSE,
                          woken |-> old.woken + 1]
                  ELSE system.wakers[w] = old
    ELSE /\ result = IF start.inner.errno = "EINTR"
                     THEN Rec("select", "Ok", <<>>)
                     ELSE Rec("select", "Err", start.inner.errno)
         /\ NoneWoken
         /\ system.readers = is_alive(start.system, start.system.readers)
         /\ system.writers = is_alive(start.system, start.system.writers)

\* select has got EBADF with a reader and a writer registered, has woken the
\* waker of each and has returned the error.
C35_Witness ==
  /\ ReturnedSelect
  /\ entry = "AsyncIo"
  /\ start.inner.errno = "EBADF"
  /\ start.system.readers = <<[fd |-> "fd3", waker |-> 1]>>
  /\ start.system.writers = <<[fd |-> "fd4", waker |-> 2]>>
  /\ system.wakers[1].woken = 1
  /\ system.wakers[2].woken = 1
  /\ system.readers = <<>>
  /\ system.writers = <<>>
  /\ result = Rec("select", "Err", "EBADF")

\* select has got EINTR with a reader registered, has returned Ok(()) and
\* has left the reader registered and its waker alone.
C35_Eintr ==
  /\ ReturnedSelect
  /\ entry = "AsyncIo"
  /\ start.inner.errno = "EINTR"
  /\ system.readers = <<[fd |-> "fd3", waker |-> 1]>>
  /\ system.wakers[1] = [alive |-> TRUE, waker |-> TRUE, woken |-> 0]
  /\ result = Rec("select", "Ok", <<>>)

====
